---- MODULE Spec2Model ----
(***************************************************************************)
(* The MV3 engine wrapper of the extension (engine-mv3.ts): the debounced  *)
(* update of the tswebextension configuration, the construction of the     *)
(* configuration from the filter state, the user rules and the custom      *)
(* filters, and the disabling of the user rules the runtime rejected.      *)
(*                                                                         *)
(* Every asynchronous function is cut at its awaits: one action runs from  *)
(* one suspension point to the next, as the JavaScript event loop does.    *)
(***************************************************************************)
EXTENDS Integers, Sequences, FiniteSets, TLC

\* ------------------------------------------------------------------ bounds
\* Slots for invocations of Engine.update that are running at the same time.
MaxProcs == 2
\* debounceUpdate() calls made by the user interface in one behaviour.
MaxReq == 2
\* Direct engine.update() calls (loadAndEnableQuickFixesRules(true)).
MaxDirect == 1
\* Length of the stored user rule lists getConfiguration is tried on.
MaxLen == 3
\* Changes of the registry made while one configuration is built.
MaxEdits == 2
\* Configurations built one after the other.
MaxBuilds == 2
\* Calls of start, stop and setFilteringState in one behaviour.
MaxLife == 3

\* The time the clock runs to, and the step of the clock, in milliseconds.
MaxTime == 3000
TickMs == 250

\* checkRuleSafety calls in flight at once, calls made by one SafetyChecker,
\* and SafetyCheckers constructed one after the other on the same cache file.
MaxInFlight == 2
MaxChecks == 3
MaxRuns == 2

\* Timers set and clear calls made on Mv3Timers, the time its clock runs to
\* and the step of that clock, in milliseconds.
MaxTimers == 2
MaxClears == 2
MaxAlarmTime == 120000
AlarmTickMs == 30000
\* UserRulesEditor: the UserFilterUpdated events and the edits of the user.
MaxEvents == 2
MaxTyped == 2
\* loadAndEnableQuickFixesRules calls made.
MaxQuick == 2

\* ------------------------------------------------------------- the inputs
Procs == 1..MaxProcs

\* The quick fixes filter is enabled by QuickFixesRulesApi, the others by the user.
QuickFixesFilterId == "QF"
StaticFilters == {"F1", QuickFixesFilterId}
CustomFilters == {"C1"}
Filters == StaticFilters \cup CustomFilters
UserFilters == {"C1"}
InitialFilters == {{"F1"}, {"F1", "C1"}}

\* The user rules the behaviours start from, and the rules the user adds.
InitialRules == {<<"bad">>, <<"syn">>}
EditTexts == {"bad"}

\* Rule texts the runtime rejects with an error that carries the rule
\* (error.networkRule), and those it rejects with an error that does not.
BadRules == {"bad", "cbad"}
RulelessBadRules == {"syn"}
\* Static filters whose rule set the runtime reports an error against; such
\* an error is not one of result.dynamicRules.errors.
StaticBadFilters == {"F1"}

\* The lines a stored user rule is made of: the empty line, two rules, and
\* the same rule as "a" in another syntax (see ConvertRule).
RuleTexts == {"", "a", "A", "b"}
\* The allow-list domains and the inverted allow-list domains in the storage.
AllowlistDomains == <<"n.com">>
InvertedAllowlistDomains == <<"i.com">>

\* ---------------------------------------------------------------- helpers
Range(s) == {s[i] : i \in 1..Len(s)}

RECURSIVE Filter(_, _)
\* Array.prototype.filter with the predicate "is a member of keep".
Filter(s, keep) ==
    IF s = <<>> THEN <<>>
    ELSE IF Head(s) \in keep THEN <<Head(s)>> \o Filter(Tail(s), keep)
    ELSE Filter(Tail(s), keep)

RECURSIVE Dedup(_, _)
\* Array.from(new Set(s)): the first occurrence of every element, in order.
Dedup(s, seen) ==
    IF s = <<>> THEN <<>>
    ELSE IF Head(s) \in seen THEN Dedup(Tail(s), seen)
    ELSE <<Head(s)>> \o Dedup(Tail(s), seen \cup {Head(s)})

RECURSIVE JoinLines(_)
\* filterLines.join('\n')
JoinLines(s) ==
    IF s = <<>> THEN ""
    ELSE IF Len(s) = 1 THEN s[1]
    ELSE s[1] \o "\n" \o JoinLines(Tail(s))

\* The sequences of at most n elements of S.
SeqsUpTo(S, n) == UNION {[1..k -> S] : k \in 0..n}

RemoveAt(s, i) == [j \in 1..(Len(s) - 1) |-> IF j < i THEN s[j] ELSE s[j + 1]]

\* ------------------------------------------------------------------ state
VARIABLES
    userRules,       \* the stored user rules, one string per line
    enabledFilters,  \* filterStateStorage: the identifiers of the enabled filters
    active,          \* the configuration the tswebextension runs, or NoConfig
    limits,          \* what rulesLimitsService.set was last given, or NoLimits
    timerPending,    \* lodash debounce: a timer is running
    lastArgs,        \* lodash debounce: the arguments of the last call
    procs,           \* the invocations of Engine.update
    notified,        \* RequestFilterUpdated notifications sent so far
    nReq,            \* debounceUpdate() calls made by the user interface
    nDirect,         \* direct engine.update() calls made
    burstCalls,      \* history: debounceUpdate() calls of the latest burst
    burstInv,        \* history: updates started for the latest burst
    burstArgs,       \* history: the arguments of the calls of the latest burst
    observed,        \* history: the limits a listener read when last notified
    initial,         \* history: the registry the behaviour started from
    clean,           \* history: no change by the user, no direct update and
                     \* no failure of the storage or the runtime so far
    prev,            \* history: the configuration and the limits of the last
                     \* apply, while the registry is as that apply read it
                     \* and unless its update ended with an error
    features,        \* the settings and the allow-list storage
    bld,             \* one invocation of Engine.getConfiguration, step by step
    nEdit,           \* changes of the registry made during the builds
    nBuild,          \* getConfiguration calls made
    life,            \* the invocation of Engine.start or Engine.stop
    filtering,       \* the tswebextension is started: filtering is on
    alerts,          \* toasts.showRuleLimitsAlert() calls so far
    nLife,           \* start, stop and setFilteringState calls made
    acked,           \* history: the alert was shown since the limits were
                     \* last set to a result that does not exceed them
    snaps,           \* history: the registries there have been since
                     \* getConfiguration was called
    clock,           \* the time, and the timer of lodash debounce
    timers,          \* Mv3Timers and the alarms of the browser
    checker,         \* a SafetyChecker, its cache file and the remote API
    editor,          \* the UserRulesEditor component
    quick            \* an invocation of loadAndEnableQuickFixesRules

vars == <<userRules, enabledFilters, active, limits, timerPending, lastArgs,
          procs, notified, nReq, nDirect, burstCalls, burstInv, burstArgs,
          observed, initial, clean,
          prev, features, bld, nEdit, nBuild, life, filtering, alerts, nLife,
          acked, snaps, clock, timers, checker, editor, quick>>

\* What the update of the configuration leaves alone.
builder == <<features, bld, nEdit, nBuild, snaps>>
lifecycle == <<life, filtering, alerts, nLife>>
\* The other components, which the engine does not touch.
aside == <<clock, timers, checker, editor, quick>>
rest == <<builder, lifecycle, acked, aside>>

registry == <<userRules, enabledFilters>>
debouncer == <<timerPending, lastArgs, burstCalls, burstInv, burstArgs>>
\* The state of the updates: all of it but the registry.
engine == <<active, limits, debouncer, procs, notified, observed, nReq, nDirect, initial, clean,
           prev>>
engineAndRegistry == <<registry, engine>>

NoConfig == [staticFiltersIds |-> {}, userrules |-> <<>>, customFilters |-> {},
             built |-> FALSE]
NoLimits == [set |-> FALSE, errors |-> {}, staticErrors |-> {}, staticCount |-> 0,
             dynamicCount |-> 0]

NoPrev == [ok |-> FALSE, cfg |-> NoConfig, limits |-> NoLimits]

\* The invocation of start or stop. op: the method that was called; arg: the
\* argument of setFilteringState when that is the method called.
IdleLife == [pc |-> "idle", op |-> "none", arg |-> FALSE, cfg |-> NoConfig,
             err |-> "none"]

\* The other components at rest.
\* now: Date.now(); lastCallTime and due: the time of the last call lodash
\* debounce keeps, and the time its timer is set to; calledAt is history: the
\* time of the most recent debounceUpdate call.
IdleClock == [now |-> 0, lastCallTime |-> 0, due |-> 0, calledAt |-> 0]
\* Mv3Timers with no timer set. now: Date.now(); alarms: the alarms of the
\* browser, by name; listeners: the listeners added to alarms.onAlarm, each
\* with the name it waits for and its callback; clears: the clearAlarm calls
\* in flight. History: cleared, the callbacks whose timer id was passed to
\* clearTimeout or clearInterval; invoked, the callbacks invoked so far; late,
\* those invoked after that; last, the latest call of the interface.
NoTimers == [now |-> 0, alarms |-> <<>>, listeners |-> {}, clears |-> {},
             cleared |-> {}, invoked |-> {}, late |-> {},
             last |-> [op |-> "none", id |-> 0, arg |-> 0, at |-> 0],
             nSet |-> 0, nClear |-> 0]
\* No SafetyChecker is constructed.
NoChecker == [config |-> "none", cache |-> <<>>, file |-> [readable |-> FALSE],
              calls |-> <<>>, apiCalls |-> <<>>, nChecks |-> 0, nRuns |-> 0]
\* No UserRulesEditor is mounted. content: the text of the editor; changed:
\* store.userRulesEditorContentChanged; draft: the editor storage content;
\* stored: the user rules the background keeps; exportAvailable: the state
\* of the export button; handlers: the invocations of
\* handleUserFilterUpdated. History: typed, the user has typed since the
\* content was last set from the stored rules; checks, what each invocation
\* found and did at its test of the flag.
NoEditor == [content |-> "", changed |-> FALSE, draft |-> "null", stored |-> "",
             exportAvailable |-> FALSE, handlers |-> <<>>, typed |-> FALSE,
             checks |-> {}, nEvents |-> 0, nTyped |-> 0]
\* No loadAndEnableQuickFixesRules call is in progress. pc: where the call
\* is; reloadEngine: its argument. History: log, what the call has done, in
\* the order it did it; before, the enabled filters when it was made; read,
\* the static filters the update it started read at once; atReturn, where
\* that update was when the promise of the call resolved; direct, the
\* engine.update() calls made before the call; n, the calls made.
IdleQuick == [pc |-> "idle", reloadEngine |-> FALSE, log |-> <<>>, before |-> {},
              read |-> {}, atReturn |-> "none", direct |-> 0, n |-> 0]

\* pc: where the invocation is suspended. reply and io record what the
\* runtime and the filter storage answered; behind, torn, superseded and
\* second are history: the registry changed after (behind) or while (torn)
\* the configuration was read, an update with an up-to-date configuration has
\* completed while this one was in flight (superseded), and the update was
\* started with no other running, after an update that went to its end
\* without an error and read the registry as it still is (second). log is
\* history too: what the invocation has done since api.configure resolved,
\* in the order it did it; burst, the arguments of the debounceUpdate calls
\* the invocation stands for.
IdleProc == [pc |-> "idle", skip |-> FALSE, parent |-> 0, cfg |-> NoConfig,
             err |-> "none", reply |-> "none", io |-> "none", arg |-> <<>>,
             calls |-> 0, n |-> 0, behind |-> FALSE, torn |-> FALSE,
             superseded |-> FALSE, second |-> FALSE, log |-> <<>>,
             burst |-> <<>>]

\* ------------------------------------------------- Engine.getConfiguration
\* The settings getConfiguration reads: UserRulesApi.isEnabled(),
\* AllowlistApi.isEnabled(), settings.allowlistInverted, the two domain lists
\* of the allow-list, and the trust flag of the custom filters.
FeatureStates ==
    [userRulesEnabled : BOOLEAN, allowlistEnabled : BOOLEAN,
     allowlistInverted : BOOLEAN, allowlist : {AllowlistDomains},
     invertedAllowlist : {InvertedAllowlistDomains}, trusted : {CustomFilters}]

\* The settings Spec runs with: user rules on, allow-list off.
UserRulesOnly ==
    [userRulesEnabled |-> TRUE, allowlistEnabled |-> FALSE,
     allowlistInverted |-> FALSE, allowlist |-> AllowlistDomains,
     invertedAllowlist |-> InvertedAllowlistDomains, trusted |-> CustomFilters]

\* The registry getConfiguration reads from.
Registry == [rules |-> userRules, filters |-> enabledFilters, features |-> features]

NoRegistry == [rules |-> <<>>, filters |-> {}, features |-> UserRulesOnly]

\* pc: where getConfiguration is suspended. The fields up to customFilters
\* are its local variables; the others are history: the registry when it was
\* called (at), what UserRulesApi.isEnabled() answered (gate), whether
\* UserRulesApi.getUserRules was called (readRules) and what it returned (got).
IdleBuild ==
    [pc |-> "idle", staticFiltersIds |-> {}, settings |-> [allowlistInverted |-> FALSE],
     allowlist |-> <<>>, userrules |-> <<>>, customFiltersIds |-> {},
     customFilters |-> {}, at |-> NoRegistry, gate |-> FALSE, readRules |-> FALSE,
     got |-> <<>>]

isCustomFilter(f) == f \in CustomFilters

\* FiltersStorage.get(filterId): the stored lines of a custom filter.
StoredLines(f) == <<"cbad", "cok">>

\* UserRulesApi.convertRules: a rule in a foreign syntax becomes its AdGuard
\* form, so two different lines may convert to the same text.
ConvertRule(r) == IF r = "A" THEN "a" ELSE r
convertRules(s) == [i \in DOMAIN s |-> ConvertRule(s[i])]

staticFiltersIdsOf(enabled) == {f \in enabled : ~isCustomFilter(f)}
customFiltersIdsOf(enabled) == {f \in enabled : isCustomFilter(f)}

NonEmptyRules(s) == Filter(s, Range(s) \ {""})

userrulesOf(stored) == convertRules(Dedup(NonEmptyRules(stored), {}))

customFiltersOf(ids) ==
    {[filterId |-> f, content |-> JoinLines(StoredLines(f))] : f \in ids}

\* The configuration getConfiguration returns for a registry read at once.
ConfigurationOf(stored, enabled) ==
    [staticFiltersIds |-> staticFiltersIdsOf(enabled),
     userrules |-> userrulesOf(stored),
     customFilters |-> customFiltersOf(customFiltersIdsOf(enabled)),
     built |-> TRUE]

\* ----------------------------------------------------------- the runtime
\* The rules the runtime compiles as dynamic rules: the user rules and the
\* lines of the custom filters of the configuration.
DynamicRulesOf(cfg) ==
    Range(cfg.userrules)
      \cup UNION {Range(StoredLines(c.filterId)) : c \in cfg.customFilters}

\* result.dynamicRules.errors of api.configure(cfg).
ErrorsOf(cfg) ==
    {[hasRule |-> TRUE, text |-> r] : r \in DynamicRulesOf(cfg) \cap BadRules}
      \cup {[hasRule |-> FALSE, text |-> r] :
                r \in DynamicRulesOf(cfg) \cap RulelessBadRules}

ResultOf(cfg) ==
    [set |-> TRUE,
     errors |-> ErrorsOf(cfg),
     staticErrors |-> cfg.staticFiltersIds \cap StaticBadFilters,
     staticCount |-> Cardinality(cfg.staticFiltersIds),
     dynamicCount |-> Cardinality(DynamicRulesOf(cfg))
                        - Cardinality(ErrorsOf(cfg))]

\* ------------------------------------------------------ RulesLimitsService
\* The ceiling the platform puts on the number of enabled static filters.
StaticCeiling == 1
\* Whether a snapshot of the limits has a ceiling exceeded.
ExceededIn(l) == l.set /\ l.staticCount > StaticCeiling
areFilterLimitsExceeded == limits.set /\ limits.staticCount > StaticCeiling

\* ------------------------------------------------------- lodash debounce
\* A slot is free when no invocation uses it; the record of a settled
\* invocation stays readable until the slot is taken again, that of a nested
\* invocation until the caller that awaits it has resumed.
Free(p) == procs[p].pc = "idle" \/ (procs[p].pc = "done" /\ procs[p].parent = 0)
FreeSlots == {p \in Procs : Free(p)}
NextSlot == CHOOSE p \in FreeSlots : \A q \in FreeSlots : p <= q

\* history: the registry changes; the configurations read so far are behind.
Outdated(ps) ==
    [p \in Procs |->
        IF ps[p].pc = "build" THEN [ps[p] EXCEPT !.torn = TRUE, !.second = FALSE]
        ELSE IF ps[p].pc = "configure"
        THEN [ps[p] EXCEPT !.behind = TRUE, !.second = FALSE]
        ELSE [ps[p] EXCEPT !.second = FALSE]]

\* history: an update that starts now runs in succession to the last apply.
InSuccession == prev.ok /\ \A p \in Procs : procs[p].pc \in {"idle", "done"}

\* Mutant of DebounceUpdate: a call that opts out of the limits check does not
\* undo the request for it of an earlier call of the burst.
DebounceUpdateKeepsCheck(skip, ps) ==
    /\ timerPending' = TRUE
    /\ lastArgs' = IF timerPending THEN (lastArgs /\ skip) ELSE skip
    /\ burstCalls' = IF timerPending THEN burstCalls + 1 ELSE 1
    /\ burstInv' = IF timerPending THEN burstInv ELSE 0
    /\ burstArgs' = IF timerPending THEN Append(burstArgs, skip) ELSE <<skip>>
    /\ procs' = ps

\* debounceUpdate(skipLimitsCheck): debounce(update, UPDATE_TIMEOUT_MS) with
\* the default options (trailing edge only): the call (re)starts the timer and
\* keeps its arguments.
DebounceUpdate(skip, ps) ==
    /\ timerPending' = TRUE
    /\ lastArgs' = skip
    /\ burstCalls' = IF timerPending THEN burstCalls + 1 ELSE 1
    /\ burstInv' = IF timerPending THEN burstInv ELSE 0
    /\ burstArgs' = IF timerPending THEN Append(burstArgs, skip) ELSE <<skip>>
    /\ procs' = ps

\* Mutant of TimerExpired: the timer is not cleared and expires again.
TimerExpiredKeepsTimer(ps, slot, started) ==
    /\ timerPending' = timerPending
    /\ burstInv' = burstInv + 1
    /\ procs' = [ps EXCEPT ![slot] = [started EXCEPT !.n = burstCalls,
                                                     !.burst = burstArgs]]
    /\ UNCHANGED <<lastArgs, burstCalls, burstArgs>>

\* The timer expires: update is invoked once, with the last arguments.
\* history: n is the number of calls the invocation stands for.
TimerExpired(ps, slot, started) ==
    /\ timerPending' = FALSE
    /\ burstInv' = burstInv + 1
    /\ procs' = [ps EXCEPT ![slot] = [started EXCEPT !.n = burstCalls,
                                                     !.burst = burstArgs]]
    /\ UNCHANGED <<lastArgs, burstCalls, burstArgs>>

\* ----------------------------------------------------------- Engine.update
\* update(skipLimitsCheck) up to its first suspension, inside getConfiguration:
\* the static filter ids are read, then the user rules are awaited.
StartedUpdate(skip, parent, enabled) ==
    [IdleProc EXCEPT !.pc = "build", !.skip = skip, !.parent = parent,
                     !.cfg = [NoConfig EXCEPT
                                !.staticFiltersIds = staticFiltersIdsOf(enabled)]]

\* The promise update returned settles.
Finished(rec, err) ==
    [IdleProc EXCEPT !.pc = "done", !.err = err, !.parent = rec.parent,
                     !.reply = rec.reply, !.io = rec.io, !.calls = rec.calls,
                     !.log = rec.log, !.burst = rec.burst]

\* Mutant of AfterRead: a storage failure is swallowed and the filter left out.
AfterReadSwallowsFailure(rec, stored, enabled, ok) ==
    [rec EXCEPT !.pc = "configure", !.io = IF ok THEN "ok" ELSE "failed",
                !.calls = @ + 1,
                !.cfg = [staticFiltersIds |-> rec.cfg.staticFiltersIds,
                         userrules |-> userrulesOf(stored),
                         customFilters |->
                             IF ok THEN customFiltersOf(customFiltersIdsOf(enabled))
                             ELSE {},
                         built |-> TRUE]]

\* Mutant of AfterRead: userrules is not a local variable of the call: the
\* rules of the configuration the runtime runs are still in it.
AfterReadKeepsRules(rec, stored, enabled, ok) ==
    IF ok
    THEN [rec EXCEPT !.pc = "configure", !.io = "ok", !.calls = @ + 1,
                     !.cfg = [staticFiltersIds |-> rec.cfg.staticFiltersIds,
                              userrules |-> active.userrules \o userrulesOf(stored),
                              customFilters |->
                                  customFiltersOf(customFiltersIdsOf(enabled)),
                              built |-> TRUE]]
    ELSE Finished([rec EXCEPT !.io = "failed"], "SourceUnavailable")

\* getConfiguration after the user rules are read (lines 196-229) and update
\* up to its await of api.configure: FiltersStorage.get answered ok or threw.
AfterRead(rec, stored, enabled, ok) ==
    IF ok
    THEN [rec EXCEPT !.pc = "configure", !.io = "ok", !.calls = @ + 1,
                     !.cfg = [staticFiltersIds |-> rec.cfg.staticFiltersIds,
                              userrules |-> userrulesOf(stored),
                              customFilters |->
                                  customFiltersOf(customFiltersIdsOf(enabled)),
                              built |-> TRUE]]
    ELSE Finished([rec EXCEPT !.io = "failed"], "SourceUnavailable")

\* Mutant of invalidDynamicRulesOf: the text of every error is collected,
\* whether the error carries a rule or not.
invalidDynamicRulesOfEveryError(errors) == {e.text : e \in errors}

\* The texts of the errors that carry a rule (lines 154-159).
invalidDynamicRulesOf(errors) == {e.text : e \in {x \in errors : x.hasRule}}

\* Mutant of RulesToDisable: every user rule of the configuration is passed.
RulesToDisableAll(cfg, invalid) == cfg.userrules

\* Mutant of RulesToDisable: no user rule is passed.
RulesToDisableNone(cfg, invalid) == <<>>

\* configuration.userrules.filter((r) => invalidDynamicRules.includes(r))
RulesToDisable(cfg, invalid) == Filter(cfg.userrules, invalid)

\* Mutant of Remediation: the two early returns are missing.
RemediationNoEarlyReturn(rec) ==
    [rec EXCEPT !.pc = "disable", !.log = Append(@, "disable"),
                !.arg = RulesToDisable(rec.cfg,
                                       invalidDynamicRulesOf(ResultOf(rec.cfg).errors))]

\* update() from the destructuring of the result to its end (lines 148-168),
\* up to the await of UserRulesApi.disableUserRules.
Remediation(rec) ==
    LET errors == ResultOf(rec.cfg).errors
        invalid == invalidDynamicRulesOf(errors)
    IN  IF errors = {} THEN Finished(rec, "none")
        ELSE IF invalid = {} THEN Finished(rec, "none")
        ELSE [rec EXCEPT !.pc = "disable", !.log = Append(@, "disable"),
                         !.arg = RulesToDisable(rec.cfg, invalid)]

\* Mutant of AfterConfigure: skipLimitsCheck is ignored.
AfterConfigureAlwaysChecks(rec) ==
    [rec EXCEPT !.pc = "check", !.log = Append(@, "check")]

\* update() after api.configure resolved, up to the next suspension: the
\* limits check is awaited unless skipLimitsCheck (lines 144-146).
AfterConfigure(rec) ==
    IF ~rec.skip THEN [rec EXCEPT !.pc = "check", !.log = Append(@, "check")]
    ELSE Remediation(rec)

\* Mutant of Settled: the listeners are notified in a finally block.
SettledNotifiesAlways(p, ok, ps) ==
    /\ IF ok
       THEN /\ limits' = ResultOf(procs[p].cfg)
            /\ procs' = [ps EXCEPT ![p] =
                            AfterConfigure([@ EXCEPT !.reply = "resolved",
                                                     !.log = <<"set", "notify">>])]
       ELSE /\ procs' = [ps EXCEPT ![p] =
                            Finished([@ EXCEPT !.reply = "rejected"],
                                     "RuntimeApplyFailed")]
            /\ UNCHANGED limits
    /\ notified' = notified + 1
    /\ observed' = limits'

\* Mutant of Settled: the listeners are notified before the limits are set.
SettledNotifiesFirst(p, ok, ps) ==
    IF ok
    THEN /\ notified' = notified + 1
         /\ observed' = limits
         /\ limits' = ResultOf(procs[p].cfg)
         /\ procs' = [ps EXCEPT ![p] =
                         AfterConfigure([@ EXCEPT !.reply = "resolved",
                                                  !.log = <<"notify", "set">>])]
    ELSE /\ procs' = [ps EXCEPT ![p] =
                         Finished([@ EXCEPT !.reply = "rejected"], "RuntimeApplyFailed")]
         /\ UNCHANGED <<limits, notified, observed>>

\* update() when api.configure has settled (lines 136-146): on success the
\* limits are stored and then the listeners notified, who read the limits as
\* they are notified; a rejection is update's own.
Settled(p, ok, ps) ==
    IF ok
    THEN /\ limits' = ResultOf(procs[p].cfg)
         /\ notified' = notified + 1
         /\ observed' = limits'
         /\ procs' = [ps EXCEPT ![p] =
                         AfterConfigure([@ EXCEPT !.reply = "resolved",
                                                  !.log = <<"set", "notify">>])]
    ELSE /\ procs' = [ps EXCEPT ![p] =
                         Finished([@ EXCEPT !.reply = "rejected"], "RuntimeApplyFailed")]
         /\ UNCHANGED <<limits, notified, observed>>

\* ------------------------------------------------------------ the actions
Init ==
    /\ userRules \in InitialRules
    /\ enabledFilters \in InitialFilters
    /\ active = NoConfig
    /\ limits = NoLimits
    /\ timerPending = FALSE
    /\ lastArgs = FALSE
    /\ procs = [p \in Procs |-> IdleProc]
    /\ notified = 0
    /\ nReq = 0
    /\ nDirect = 0
    /\ burstCalls = 0
    /\ burstInv = 0
    /\ burstArgs = <<>>
    /\ observed = NoLimits
    /\ initial = [rules |-> userRules, filters |-> enabledFilters]
    /\ clean = TRUE
    /\ prev = NoPrev
    /\ features = UserRulesOnly
    /\ bld = IdleBuild
    /\ nEdit = 0
    /\ nBuild = 0
    /\ life = IdleLife
    /\ filtering = TRUE
    /\ alerts = 0
    /\ nLife = 0
    /\ acked = FALSE
    /\ snaps = {}
    /\ clock = IdleClock
    /\ timers = NoTimers
    /\ checker = NoChecker
    /\ editor = NoEditor
    /\ quick = IdleQuick

\* The user interface changes the registry and then calls debounceUpdate().
UserAddRule(t) ==
    /\ nReq < MaxReq
    /\ t \notin Range(userRules)
    /\ userRules' = Append(userRules, t)
    /\ nReq' = nReq + 1
    /\ DebounceUpdate(FALSE, Outdated(procs))
    /\ clean' = FALSE
    /\ prev' = NoPrev
    /\ UNCHANGED <<rest, enabledFilters, active, limits, notified, observed, nDirect, initial>>

UserRemoveRule(i) ==
    /\ nReq < MaxReq
    /\ userRules' = RemoveAt(userRules, i)
    /\ nReq' = nReq + 1
    /\ DebounceUpdate(FALSE, Outdated(procs))
    /\ clean' = FALSE
    /\ prev' = NoPrev
    /\ UNCHANGED <<rest, enabledFilters, active, limits, notified, observed, nDirect, initial>>

UserToggleFilter(f) ==
    /\ nReq < MaxReq
    /\ enabledFilters' = IF f \in enabledFilters THEN enabledFilters \ {f}
                         ELSE enabledFilters \cup {f}
    /\ nReq' = nReq + 1
    /\ DebounceUpdate(FALSE, Outdated(procs))
    /\ clean' = FALSE
    /\ prev' = NoPrev
    /\ UNCHANGED <<rest, userRules, active, limits, notified, observed, nDirect, initial>>

\* A debounceUpdate(skipLimitsCheck) call that follows no change.
UserRequest(skip) ==
    /\ nReq < MaxReq
    /\ nReq' = nReq + 1
    /\ DebounceUpdate(skip, procs)
    /\ UNCHANGED <<rest, registry, active, limits, notified, observed, nDirect, initial, clean,
                   prev>>

\* The debounce timer expires: update(...lastArgs) is invoked.
TimerFires ==
    /\ timerPending
    /\ FreeSlots # {}
    /\ TimerExpired(procs, NextSlot,
                    [StartedUpdate(lastArgs, 0, enabledFilters)
                        EXCEPT !.second = InSuccession])
    /\ UNCHANGED <<rest, registry, active, limits, notified, observed, nReq, nDirect, initial, clean,
                   prev>>

\* QuickFixesRulesApi.loadAndEnableQuickFixesRules(true), once the rules are
\* loaded: the filter is enabled and engine.update() is called, not awaited.
DirectUpdate ==
    /\ nDirect < MaxDirect
    /\ FreeSlots # {}
    /\ nDirect' = nDirect + 1
    /\ enabledFilters' = enabledFilters \cup {QuickFixesFilterId}
    /\ procs' = [(IF QuickFixesFilterId \in enabledFilters THEN procs
                  ELSE Outdated(procs))
                 EXCEPT ![NextSlot] =
                    [StartedUpdate(FALSE, 0, enabledFilters')
                        EXCEPT !.second = (InSuccession
                                             /\ QuickFixesFilterId \in enabledFilters)]]
    /\ prev' = IF QuickFixesFilterId \in enabledFilters THEN prev ELSE NoPrev
    /\ clean' = FALSE
    /\ UNCHANGED <<rest, userRules, active, limits, debouncer, notified, observed, nReq, initial>>

\* getConfiguration resumes: the user rules and the custom filters are read,
\* the configuration is returned and update calls api.configure with it.
GetConfigurationReturns(p) ==
    /\ procs[p].pc = "build"
    /\ procs' = [procs EXCEPT ![p] = AfterRead(@, userRules, enabledFilters, TRUE)]
    /\ UNCHANGED <<rest, registry, active, limits, debouncer, notified, observed, nReq, nDirect,
                   initial, clean, prev>>

\* FiltersStorage.get of an enabled custom filter rejects.
GetConfigurationFails(p) ==
    /\ procs[p].pc = "build"
    /\ customFiltersIdsOf(enabledFilters) # {}
    /\ procs' = [procs EXCEPT ![p] = AfterRead(@, userRules, enabledFilters, FALSE)]
    /\ clean' = FALSE
    /\ UNCHANGED <<rest, registry, active, limits, debouncer, notified, observed, nReq, nDirect,
                   initial, prev>>

\* history: an update whose configuration is that of the registry as it is
\* completes; the updates in flight whose configuration is behind the
\* registry are superseded.
Supersedes(p) ==
    IF procs[p].behind \/ procs[p].torn THEN procs
    ELSE [q \in Procs |->
            IF q # p /\ procs[q].pc = "configure" /\ procs[q].behind
            THEN [procs[q] EXCEPT !.superseded = TRUE] ELSE procs[q]]

\* api.configure resolves: the runtime runs the configuration.
ConfigureResolves(p) ==
    /\ procs[p].pc = "configure"
    /\ active' = procs[p].cfg
    /\ Settled(p, TRUE, Supersedes(p))
    /\ prev' = IF procs[p].behind \/ procs[p].torn THEN NoPrev
               ELSE [ok |-> TRUE, cfg |-> procs[p].cfg, limits |-> limits']
    /\ acked' = (acked /\ ExceededIn(limits'))
    /\ UNCHANGED <<builder, lifecycle, aside, registry, debouncer, nReq, nDirect,
                   initial, clean>>

\* api.configure rejects: the runtime keeps the configuration it runs.
ConfigureRejects(p) ==
    /\ procs[p].pc = "configure"
    /\ Settled(p, FALSE, procs)
    /\ clean' = FALSE
    /\ UNCHANGED <<rest, registry, active, debouncer, nReq, nDirect, initial, prev>>

\* RulesLimitsService.checkFiltersLimitsChange resolves without having called
\* the update function it was given.
CheckReturns(p) ==
    /\ procs[p].pc = "check"
    /\ procs' = [procs EXCEPT ![p] = Remediation(@)]
    /\ UNCHANGED <<rest, registry, active, limits, debouncer, notified, observed, nReq, nDirect,
                   initial, clean, prev>>

\* RulesLimitsService.checkFiltersLimitsChange finds the limits exceeded,
\* calls the update function it was given, update(true), and awaits it.
CheckCallsUpdate(p) ==
    /\ procs[p].pc = "check"
    /\ areFilterLimitsExceeded
    /\ FreeSlots # {}
    /\ procs' = [procs EXCEPT
          ![p] = [@ EXCEPT !.pc = "nested"],
          ![NextSlot] = StartedUpdate(TRUE, p, enabledFilters)]
    /\ UNCHANGED <<rest, registry, active, limits, debouncer, notified, observed, nReq, nDirect,
                   initial, clean, prev>>

\* The nested update has settled: the check, and the update that awaits it,
\* resume; a rejection of the nested update is theirs too.
NestedReturns(p) ==
    /\ procs[p].pc = "nested"
    /\ \E c \in Procs :
          /\ procs[c].parent = p
          /\ procs[c].pc = "done"
          /\ procs' = [procs EXCEPT
                ![c] = IdleProc,
                ![p] = IF procs[c].err = "none" THEN Remediation(@)
                       ELSE Finished(@, procs[c].err)]
          /\ prev' = IF procs[c].err = "none" THEN prev ELSE NoPrev
    /\ UNCHANGED <<rest, registry, active, limits, debouncer, notified, observed, nReq, nDirect,
                   initial, clean>>

\* UserRulesApi.disableUserRules(rules): the stored lines that equal one of
\* the rules are taken out of the user rules and an update is requested; with
\* no such line nothing is written and nothing is requested.
DisableUserRules(p) ==
    /\ procs[p].pc = "disable"
    /\ LET matched == Range(procs[p].arg) \cap Range(userRules)
           ps == [procs EXCEPT ![p] = Finished(@, "none")]
       IN  IF matched # {}
           THEN /\ userRules' = Filter(userRules, Range(userRules) \ matched)
                /\ DebounceUpdate(FALSE, Outdated(ps))
                /\ prev' = NoPrev
           ELSE /\ procs' = ps
                /\ UNCHANGED <<userRules, debouncer, prev>>
    /\ UNCHANGED <<rest, enabledFilters, active, limits, notified, observed, nReq, nDirect,
                   initial, clean>>

Next ==
    \/ \E t \in EditTexts : UserAddRule(t)
    \/ \E i \in DOMAIN userRules : UserRemoveRule(i)
    \/ \E f \in UserFilters : UserToggleFilter(f)
    \/ \E skip \in BOOLEAN : UserRequest(skip)
    \/ TimerFires
    \/ DirectUpdate
    \/ \E p \in Procs : GetConfigurationReturns(p)
    \/ \E p \in Procs : GetConfigurationFails(p)
    \/ \E p \in Procs : ConfigureResolves(p)
    \/ \E p \in Procs : ConfigureRejects(p)
    \/ \E p \in Procs : CheckReturns(p)
    \/ \E p \in Procs : CheckCallsUpdate(p)
    \/ \E p \in Procs : NestedReturns(p)
    \/ \E p \in Procs : DisableUserRules(p)

Spec == Init /\ [][Next]_vars

\* ------------------------------------ Engine.getConfiguration, step by step
\* Mutant of allowlistOf: the inverted flag is read the wrong way round.
allowlistOfInvertedSwapped(f) ==
    IF ~f.allowlistEnabled THEN <<>>
    ELSE IF f.allowlistInverted THEN f.allowlist
    ELSE f.invertedAllowlist

\* The allow-list of the configuration (lines 178-188).
allowlistOf(f) ==
    IF ~f.allowlistEnabled THEN <<>>
    ELSE IF f.allowlistInverted THEN f.invertedAllowlist
    ELSE f.allowlist

\* Mutant of Called: the user rules are read whatever isEnabled() answers.
CalledReadsAlways(reg) ==
    [IdleBuild EXCEPT
        !.pc = "rules",
        !.staticFiltersIds = staticFiltersIdsOf(reg.filters),
        !.settings = [allowlistInverted |-> reg.features.allowlistInverted],
        !.allowlist = allowlistOf(reg.features),
        !.at = reg, !.gate = reg.features.userRulesEnabled, !.readRules = TRUE]

\* getConfiguration up to its first await (lines 175-193, or 175-208 when the
\* user rules are disabled): the static filters, the settings and the
\* allow-list are read; the user rules are awaited if they are enabled,
\* otherwise the enabled custom filters are read and their contents awaited.
Called(reg) ==
    LET b == [IdleBuild EXCEPT
                !.staticFiltersIds = staticFiltersIdsOf(reg.filters),
                !.settings = [allowlistInverted |-> reg.features.allowlistInverted],
                !.allowlist = allowlistOf(reg.features),
                !.at = reg, !.gate = reg.features.userRulesEnabled]
    IN  IF reg.features.userRulesEnabled
        THEN [b EXCEPT !.pc = "rules", !.readRules = TRUE]
        ELSE [b EXCEPT !.pc = "filters",
                       !.customFiltersIds = customFiltersIdsOf(reg.filters)]

\* getConfiguration from the user rules it awaited to the await of the
\* contents of the custom filters (lines 193-208).
RulesRead(b, reg) ==
    [b EXCEPT !.pc = "filters", !.got = reg.rules,
              !.userrules = userrulesOf(reg.rules),
              !.customFiltersIds = customFiltersIdsOf(reg.filters)]

\* Mutant of StoredAfterRead: the empty lines and the duplicates are taken
\* out of the array getUserRules returned, in place.
StoredAfterReadInPlace(stored) == Dedup(NonEmptyRules(stored), {})

\* The stored user rules after lines 193-202: filter and Array.from make new
\* arrays, the array getUserRules returned is not written to.
StoredAfterRead(stored) == stored

\* The contents are read: the payloads are made, of the identifier and the
\* joined lines of each filter, and the configuration is returned (208-229).
FiltersRead(b) ==
    [b EXCEPT !.pc = "done", !.customFilters = customFiltersOf(b.customFiltersIds)]

\* The configuration returned (lines 217-228).
Returned(b) ==
    [filteringLogEnabled |-> FALSE, customFilters |-> b.customFilters,
     verbose |-> FALSE, staticFiltersIds |-> b.staticFiltersIds,
     userrules |-> b.userrules, allowlist |-> b.allowlist, settings |-> b.settings]

Building == bld.pc \in {"rules", "filters"}

GetConfigurationCalled ==
    /\ ~Building
    /\ nBuild < MaxBuilds
    /\ nBuild' = nBuild + 1
    /\ bld' = Called(Registry)
    /\ snaps' = {Registry}
    /\ UNCHANGED <<engineAndRegistry, lifecycle, acked, aside, features, nEdit>>

UserRulesRead ==
    /\ bld.pc = "rules"
    /\ bld' = RulesRead(bld, Registry)
    /\ userRules' = StoredAfterRead(userRules)
    /\ UNCHANGED <<enabledFilters, engine, lifecycle, acked, aside, features, nEdit,
                   nBuild, snaps>>

CustomFiltersRead ==
    /\ bld.pc = "filters"
    /\ bld' = FiltersRead(bld)
    /\ UNCHANGED <<engineAndRegistry, lifecycle, acked, aside, features, nEdit, nBuild,
                   snaps>>

\* FiltersStorage.get of one of the custom filters rejects: so does
\* getConfiguration.
CustomFiltersFail ==
    /\ bld.pc = "filters"
    /\ bld.customFiltersIds # {}
    /\ bld' = [bld EXCEPT !.pc = "failed"]
    /\ UNCHANGED <<engineAndRegistry, lifecycle, acked, aside, features, nEdit, nBuild,
                   snaps>>

\* The registry changes while getConfiguration is suspended.
RegistryToggleFilter(f) ==
    /\ Building /\ nEdit < MaxEdits
    /\ nEdit' = nEdit + 1
    /\ enabledFilters' = IF f \in enabledFilters THEN enabledFilters \ {f}
                         ELSE enabledFilters \cup {f}
    /\ UNCHANGED <<userRules, engine, lifecycle, acked, aside, features, bld, nBuild>>
    /\ snaps' = snaps \cup {Registry'}

RegistryAddRule(t) ==
    /\ Building /\ nEdit < MaxEdits
    /\ nEdit' = nEdit + 1
    /\ userRules' = Append(userRules, t)
    /\ UNCHANGED <<enabledFilters, engine, lifecycle, acked, aside, features, bld, nBuild>>
    /\ snaps' = snaps \cup {Registry'}

RegistryToggleSetting(k) ==
    /\ Building /\ nEdit < MaxEdits
    /\ nEdit' = nEdit + 1
    /\ features' = [features EXCEPT ![k] = ~@]
    /\ UNCHANGED <<engineAndRegistry, lifecycle, acked, aside, bld, nBuild>>
    /\ snaps' = snaps \cup {Registry'}

InitBuild ==
    /\ userRules \in SeqsUpTo(RuleTexts, MaxLen) \cup {<<"a", "b", "a", "", "b">>}
    /\ enabledFilters \in {{}, {"F1"}, {"F1", "C1"}}
    /\ features \in FeatureStates
    /\ bld = IdleBuild
    /\ nEdit = 0
    /\ nBuild = 0
    /\ life = IdleLife
    /\ filtering = TRUE
    /\ alerts = 0
    /\ nLife = 0
    /\ acked = FALSE
    /\ snaps = {}
    /\ clock = IdleClock
    /\ timers = NoTimers
    /\ checker = NoChecker
    /\ editor = NoEditor
    /\ quick = IdleQuick
    /\ active = NoConfig
    /\ limits = NoLimits
    /\ timerPending = FALSE
    /\ lastArgs = FALSE
    /\ procs = [p \in Procs |-> IdleProc]
    /\ notified = 0
    /\ nReq = 0
    /\ nDirect = 0
    /\ burstCalls = 0
    /\ burstInv = 0
    /\ burstArgs = <<>>
    /\ observed = NoLimits
    /\ initial = [rules |-> userRules, filters |-> enabledFilters]
    /\ clean = TRUE
    /\ prev = NoPrev

NextBuild ==
    \/ GetConfigurationCalled
    \/ UserRulesRead
    \/ CustomFiltersRead
    \/ CustomFiltersFail
    \/ \E f \in {"F1", "C1"} : RegistryToggleFilter(f)
    \/ RegistryAddRule("A")
    \/ \E k \in {"userRulesEnabled", "allowlistEnabled", "allowlistInverted"} :
          RegistryToggleSetting(k)

SpecBuild == InitBuild /\ [][NextBuild]_vars

\* --------------------------------- Engine.start, stop, setFilteringState
\* The parent of an update that the limits check of start has called.
StartCaller == 0 - 1

\* start() up to its first suspension, in getConfiguration (line 94; the
\* build is not a Firefox AMO build).
StartCalled(call, enabled) ==
    [call EXCEPT !.pc = "build",
                 !.cfg = [NoConfig EXCEPT
                            !.staticFiltersIds = staticFiltersIdsOf(enabled)]]

\* stop() up to its await of api.stop() (line 117).
StopCalled(call) == [call EXCEPT !.pc = "stopping"]

\* setFilteringState(isFilteringEnabled) up to its first suspension
\* (lines 236-242).
setFilteringState(isFilteringEnabled, enabled) ==
    LET call == [IdleLife EXCEPT !.op = "setFilteringState",
                                 !.arg = isFilteringEnabled]
    IN  IF isFilteringEnabled THEN StopCalled(call)
        ELSE StartCalled(call, enabled)

\* start() after the limits check (lines 107-109).
AlertIfExceeded ==
    IF areFilterLimitsExceeded
    THEN alerts' = alerts + 1 /\ acked' = TRUE
    ELSE UNCHANGED <<alerts, acked>>

LifeFree == life.pc \in {"idle", "done"} /\ nLife < MaxLife

StartCalledDirectly ==
    /\ LifeFree
    /\ nLife' = nLife + 1
    /\ life' = StartCalled([IdleLife EXCEPT !.op = "start"], enabledFilters)
    /\ UNCHANGED <<engineAndRegistry, builder, aside, filtering, alerts, acked>>

SetFilteringStateCalled(isFilteringEnabled) ==
    /\ LifeFree
    /\ nLife' = nLife + 1
    /\ life' = setFilteringState(isFilteringEnabled, enabledFilters)
    /\ UNCHANGED <<engineAndRegistry, builder, aside, filtering, alerts, acked>>

\* getConfiguration returns to start, which calls api.start (lines 94-97).
StartGetConfigurationReturns ==
    /\ life.pc = "build"
    /\ life' = [life EXCEPT !.pc = "starting",
                            !.cfg = [staticFiltersIds |-> life.cfg.staticFiltersIds,
                                     userrules |-> userrulesOf(userRules),
                                     customFilters |->
                                        customFiltersOf(customFiltersIdsOf(enabledFilters)),
                                     built |-> TRUE]]
    /\ UNCHANGED <<engineAndRegistry, builder, aside, filtering, alerts, nLife, acked>>

\* api.start resolves: the runtime filters with the configuration; the limits
\* are set, the listeners notified and the limits check awaited (97-105).
ApiStartResolves ==
    /\ life.pc = "starting"
    /\ filtering' = TRUE
    /\ active' = life.cfg
    /\ limits' = ResultOf(life.cfg)
    /\ notified' = notified + 1
    /\ observed' = limits'
    /\ acked' = (acked /\ ExceededIn(limits'))
    /\ life' = [life EXCEPT !.pc = "check"]
    /\ UNCHANGED <<registry, debouncer, procs, nReq, nDirect, initial, clean, prev,
                   builder, aside, alerts, nLife>>

\* api.start rejects: so does start.
ApiStartRejects ==
    /\ life.pc = "starting"
    /\ life' = [life EXCEPT !.pc = "done", !.err = "RuntimeApplyFailed"]
    /\ UNCHANGED <<engineAndRegistry, builder, aside, filtering, alerts, nLife, acked>>

\* RulesLimitsService.checkFiltersLimitsChange resolves without having called
\* the update function; start ends with lines 107-109.
StartCheckReturns ==
    /\ life.pc = "check"
    /\ life' = [life EXCEPT !.pc = "done"]
    /\ AlertIfExceeded
    /\ UNCHANGED <<engineAndRegistry, builder, aside, filtering, nLife>>

\* The limits check finds the limits exceeded, calls update(true) and awaits it.
StartCheckCallsUpdate ==
    /\ life.pc = "check"
    /\ areFilterLimitsExceeded
    /\ FreeSlots # {}
    /\ life' = [life EXCEPT !.pc = "nested"]
    /\ procs' = [procs EXCEPT
                    ![NextSlot] = StartedUpdate(TRUE, StartCaller, enabledFilters)]
    /\ UNCHANGED <<registry, active, limits, debouncer, notified, observed, nReq, nDirect,
                   initial, clean, prev, builder, aside, filtering, alerts, nLife, acked>>

\* The update the check called has settled; a rejection is start's too.
StartNestedReturns ==
    /\ life.pc = "nested"
    /\ \E c \in Procs :
          /\ procs[c].parent = StartCaller
          /\ procs[c].pc = "done"
          /\ procs' = [procs EXCEPT ![c] = IdleProc]
          /\ life' = [life EXCEPT !.pc = "done", !.err = procs[c].err]
          /\ IF procs[c].err = "none" THEN AlertIfExceeded
             ELSE UNCHANGED <<alerts, acked>>
    /\ UNCHANGED <<registry, active, limits, debouncer, notified, observed, nReq, nDirect,
                   initial, clean, prev, builder, aside, filtering, nLife>>

\* api.stop resolves: the runtime filters no more; the listeners are notified
\* (lines 117-122).
ApiStopResolves ==
    /\ life.pc = "stopping"
    /\ filtering' = FALSE
    /\ notified' = notified + 1
    /\ observed' = limits
    /\ life' = [life EXCEPT !.pc = "done"]
    /\ UNCHANGED <<registry, active, limits, debouncer, procs, nReq, nDirect,
                   initial, clean, prev, builder, aside, alerts, nLife, acked>>

InitLife ==
    /\ userRules \in {<<>>, <<"bad">>}
    /\ enabledFilters \in {{"F1"}, {"F1", QuickFixesFilterId},
                            {"F1", QuickFixesFilterId, "C1"}}
    /\ active = NoConfig
    /\ limits = NoLimits
    /\ timerPending = FALSE
    /\ lastArgs = FALSE
    /\ procs = [p \in Procs |-> IdleProc]
    /\ notified = 0
    /\ nReq = 0
    /\ nDirect = 0
    /\ burstCalls = 0
    /\ burstInv = 0
    /\ burstArgs = <<>>
    /\ observed = NoLimits
    /\ initial = [rules |-> userRules, filters |-> enabledFilters]
    /\ clean = TRUE
    /\ prev = NoPrev
    /\ features = UserRulesOnly
    /\ bld = IdleBuild
    /\ nEdit = 0
    /\ nBuild = 0
    /\ life = IdleLife
    /\ filtering \in BOOLEAN
    /\ alerts = 0
    /\ nLife = 0
    /\ acked = FALSE
    /\ snaps = {}
    /\ clock = IdleClock
    /\ timers = NoTimers
    /\ checker = NoChecker
    /\ editor = NoEditor
    /\ quick = IdleQuick

NextLife ==
    \/ StartCalledDirectly
    \/ \E e \in BOOLEAN : SetFilteringStateCalled(e)
    \/ StartGetConfigurationReturns
    \/ ApiStartResolves
    \/ ApiStartRejects
    \/ StartCheckReturns
    \/ StartCheckCallsUpdate
    \/ StartNestedReturns
    \/ ApiStopResolves
    \/ TimerFires
    \/ \E p \in Procs : GetConfigurationReturns(p)
    \/ \E p \in Procs : GetConfigurationFails(p)
    \/ \E p \in Procs : ConfigureResolves(p)
    \/ \E p \in Procs : ConfigureRejects(p)
    \/ \E p \in Procs : CheckReturns(p)
    \/ \E p \in Procs : CheckCallsUpdate(p)
    \/ \E p \in Procs : NestedReturns(p)
    \/ \E p \in Procs : DisableUserRules(p)

SpecLife == InitLife /\ [][NextLife]_vars

\* ------------------------------------------- Engine.debounceUpdate in time
UPDATE_TIMEOUT_MS == 1000

\* Mutant of shouldInvoke: the timer callback invokes whenever it runs.
shouldInvokeWheneverExpired(time, lastCallTime) == TRUE

\* lodash debounce, shouldInvoke(time) in the timer callback, with no maxWait:
\* the wait has passed since the last call.
shouldInvoke(time, lastCallTime) == time - lastCallTime >= UPDATE_TIMEOUT_MS

\* lodash debounce, remainingWait(time) with no maxWait.
remainingWait(time, lastCallTime) == UPDATE_TIMEOUT_MS - (time - lastCallTime)

\* Time passes; a timer that is due may still be waiting for the event loop.
ClockTick ==
    /\ clock.now + TickMs <= MaxTime
    /\ clock' = [clock EXCEPT !.now = @ + TickMs]
    /\ UNCHANGED <<engineAndRegistry, builder, lifecycle, acked, timers, checker,
                   editor, quick>>

\* debounceUpdate(skipLimitsCheck) at the time clock.now: the time of the call
\* is kept; the timer is started unless one is running.
DebounceUpdateCalled(skip) ==
    /\ nReq < MaxReq
    /\ clock.now + 2 * UPDATE_TIMEOUT_MS <= MaxTime
    /\ nReq' = nReq + 1
    /\ DebounceUpdate(skip, procs)
    /\ clock' = [clock EXCEPT !.lastCallTime = clock.now, !.calledAt = clock.now,
                              !.due = IF timerPending THEN @
                                      ELSE clock.now + UPDATE_TIMEOUT_MS]
    /\ UNCHANGED <<registry, active, limits, notified, observed, nDirect, initial,
                   clean, prev, builder, lifecycle, acked, timers, checker, editor,
                   quick>>

\* The timer callback runs before the wait has passed since the last call:
\* the timer is started again, for the rest of the wait.
TimerRestarts ==
    /\ timerPending
    /\ clock.now >= clock.due
    /\ ~shouldInvoke(clock.now, clock.lastCallTime)
    /\ clock' = [clock EXCEPT
                    !.due = clock.now + remainingWait(clock.now, clock.lastCallTime)]
    /\ UNCHANGED <<engineAndRegistry, builder, lifecycle, acked, timers, checker,
                   editor, quick>>

\* The timer callback runs when the wait has passed since the last call:
\* update(...lastArgs) is invoked (the trailing edge).
TimerInvokes ==
    /\ timerPending
    /\ clock.now >= clock.due
    /\ shouldInvoke(clock.now, clock.lastCallTime)
    /\ FreeSlots # {}
    /\ TimerExpired(procs, NextSlot, StartedUpdate(lastArgs, 0, enabledFilters))
    /\ UNCHANGED <<registry, active, limits, notified, observed, nReq, nDirect,
                   initial, clean, prev, builder, lifecycle, acked, aside>>

InitDebounce ==
    /\ userRules = <<>>
    /\ enabledFilters \in {{"F1"}, {"F1", "C1"}}
    /\ active = NoConfig
    /\ limits = NoLimits
    /\ timerPending = FALSE
    /\ lastArgs = FALSE
    /\ procs = [p \in Procs |-> IdleProc]
    /\ notified = 0
    /\ nReq = 0
    /\ nDirect = 0
    /\ burstCalls = 0
    /\ burstInv = 0
    /\ burstArgs = <<>>
    /\ observed = NoLimits
    /\ initial = [rules |-> userRules, filters |-> enabledFilters]
    /\ clean = TRUE
    /\ prev = NoPrev
    /\ features = UserRulesOnly
    /\ bld = IdleBuild
    /\ nEdit = 0
    /\ nBuild = 0
    /\ life = IdleLife
    /\ filtering = TRUE
    /\ alerts = 0
    /\ nLife = 0
    /\ acked = FALSE
    /\ snaps = {}
    /\ clock = IdleClock
    /\ timers = NoTimers
    /\ checker = NoChecker
    /\ editor = NoEditor
    /\ quick = IdleQuick

UpdateRuns ==
    \/ \E p \in Procs : GetConfigurationReturns(p)
    \/ \E p \in Procs : ConfigureResolves(p)
    \/ \E p \in Procs : CheckReturns(p)

NextDebounce ==
    \/ ClockTick
    \/ \E skip \in BOOLEAN : DebounceUpdateCalled(skip)
    \/ TimerRestarts
    \/ TimerInvokes
    \/ UpdateRuns

\* Time passes and a timer callback that is due is run in the end.
SpecDebounce ==
    /\ InitDebounce /\ [][NextDebounce]_vars
    /\ WF_vars(ClockTick) /\ WF_vars(TimerRestarts) /\ WF_vars(TimerInvokes)
    /\ WF_vars(UpdateRuns)

\* ------------------------------ SafetyChecker (dangerous-rules/safety-checker.ts)
\* The scanner configs, the script texts checked and what the API answers.
ScannerConfigs == {"A", "B"}
ScriptTexts == {"s1", "s2"}
AnswerTypes == {"dangerous", "not dangerous"}
CheckSlots == 1..MaxInFlight

\* MD5(JSON.stringify(SCANNER_CONFIG)).toString()
ConfigHash(config) == "md5:" \o config

\* A Map with no entry.
EmptyCache == [t \in {} |-> {}]

\* Map.set(key, value)
CacheSet(cache, key, value) ==
    [t \in DOMAIN cache \cup {key} |-> IF t = key THEN value ELSE cache[t]]

\* A result; under is history: the scanner config it was produced under.
SafetyCheckResult(rule, type, reason, config) ==
    [rule |-> rule, type |-> type, reason |-> reason, under |-> config]

\* The cache file: unreadable, or what saveCache wrote under some config.
NoFile == [readable |-> FALSE]
SavedFile(config, cache) ==
    [readable |-> TRUE, hash |-> ConfigHash(config), data |-> cache]

\* The cache files a SafetyChecker may find.
CacheFiles ==
    {NoFile}
      \cup {SavedFile(c, EmptyCache) : c \in ScannerConfigs}
      \cup {SavedFile(c, CacheSet(EmptyCache, "s1",
                                  SafetyCheckResult("s1", ty, "r", c))) :
               c \in ScannerConfigs, ty \in AnswerTypes \cup {"error"}}

\* Mutant of CacheLoaded: the hash of the file is not compared.
CacheLoadedWhateverHash(file, config) ==
    IF file.readable THEN file.data ELSE EmptyCache

\* The cache the constructor starts with (lines 173-180).
CacheLoaded(file, config) ==
    IF file.readable /\ file.hash = ConfigHash(config) THEN file.data
    ELSE EmptyCache

IdleCheck == [pc |-> "idle", text |-> "none", hit |-> FALSE,
              result |-> SafetyCheckResult("none", "none", "none", "none")]

\* new SafetyChecker(apiKey) in a process whose scanner config is config.
Constructed(file, config, runs) ==
    [config |-> config, cache |-> CacheLoaded(file, config), file |-> file,
     calls |-> [c \in CheckSlots |-> IdleCheck],
     apiCalls |-> [t \in ScriptTexts |-> 0], nChecks |-> 0, nRuns |-> runs]

otherComponents == <<engineAndRegistry, builder, lifecycle, acked>>

\* The process ends and a later one, with its own scanner config, constructs
\* a SafetyChecker on the cache file the earlier one left.
CheckerConstructed(config) ==
    /\ checker.nRuns < MaxRuns
    /\ \A c \in CheckSlots : checker.calls[c].pc # "api"
    /\ checker' = Constructed(checker.file, config, checker.nRuns + 1)
    /\ UNCHANGED <<otherComponents, clock, timers, editor, quick>>

\* checkRuleSafety(scriptText) up to its return from the cache (232-234) or
\* to the await of the API call (237, 191).
CheckRuleSafetyCalled(c, scriptText) ==
    /\ checker.nChecks < MaxChecks
    /\ checker.calls[c].pc # "api"
    /\ checker' =
         IF scriptText \in DOMAIN checker.cache
         THEN [checker EXCEPT
                 !.nChecks = @ + 1,
                 !.calls[c] = [pc |-> "done", text |-> scriptText, hit |-> TRUE,
                               result |-> checker.cache[scriptText]]]
         ELSE [checker EXCEPT
                 !.nChecks = @ + 1,
                 !.apiCalls[scriptText] = @ + 1,
                 !.calls[c] = [IdleCheck EXCEPT !.pc = "api", !.text = scriptText]]
    /\ UNCHANGED <<otherComponents, clock, timers, editor, quick>>

\* The result is put in the cache and the cache is saved (244-245, 256-257).
Stored(ch, c, result) ==
    [ch EXCEPT !.cache = CacheSet(ch.cache, result.rule, result),
               !.file = SavedFile(ch.config, CacheSet(ch.cache, result.rule, result)),
               !.calls[c] = [@ EXCEPT !.pc = "done", !.result = result]]

\* The API answers with a type and a reason (205-223, 238-247).
ApiAnswers(c, type) ==
    /\ checker.calls[c].pc = "api"
    /\ checker' = Stored(checker, c,
                         SafetyCheckResult(checker.calls[c].text, type, "r",
                                           checker.config))
    /\ UNCHANGED <<otherComponents, clock, timers, editor, quick>>

\* The API call fails, or its answer has no type: checkScriptText throws and
\* the error result is stored (248-260).
ApiFails(c) ==
    /\ checker.calls[c].pc = "api"
    /\ checker' = Stored(checker, c,
                         SafetyCheckResult(checker.calls[c].text, "error",
                                           "Error analyzing the rule",
                                           checker.config))
    /\ UNCHANGED <<otherComponents, clock, timers, editor, quick>>

InitChecker ==
    /\ userRules = <<>>
    /\ enabledFilters = {"F1"}
    /\ active = NoConfig
    /\ limits = NoLimits
    /\ timerPending = FALSE
    /\ lastArgs = FALSE
    /\ procs = [p \in Procs |-> IdleProc]
    /\ notified = 0
    /\ nReq = 0
    /\ nDirect = 0
    /\ burstCalls = 0
    /\ burstInv = 0
    /\ burstArgs = <<>>
    /\ observed = NoLimits
    /\ initial = [rules |-> userRules, filters |-> enabledFilters]
    /\ clean = TRUE
    /\ prev = NoPrev
    /\ features = UserRulesOnly
    /\ bld = IdleBuild
    /\ nEdit = 0
    /\ nBuild = 0
    /\ life = IdleLife
    /\ filtering = TRUE
    /\ alerts = 0
    /\ nLife = 0
    /\ acked = FALSE
    /\ snaps = {}
    /\ clock = IdleClock
    /\ timers = NoTimers
    /\ checker \in {Constructed(f, c, 1) : f \in CacheFiles, c \in ScannerConfigs}
    /\ editor = NoEditor
    /\ quick = IdleQuick

NextChecker ==
    \/ \E config \in ScannerConfigs : CheckerConstructed(config)
    \/ \E c \in CheckSlots, t \in ScriptTexts : CheckRuleSafetyCalled(c, t)
    \/ \E c \in CheckSlots, ty \in AnswerTypes : ApiAnswers(c, ty)
    \/ \E c \in CheckSlots : ApiFails(c)

SpecChecker == InitChecker /\ [][NextChecker]_vars

\* ----------------------------------------- Mv3Timers (timers/AbstractTimers.ts)
\* What generateId may return, and the timeouts and intervals asked for.
TimerIds == {1, 2}
Timeouts == {0, 30000}
Intervals == {0, 30000, 60000, 90000}
MsPerMin == 1000 * 60
MINIMAL_INTERVAL_MIN == 1

RECURSIVE GCD(_, _)
GCD(a, b) == IF b = 0 THEN a ELSE GCD(b, a % b)

\* A number of minutes is the fraction n / d, in lowest terms.
Minutes(n, d) == [n |-> n \div GCD(n, d), d |-> d \div GCD(n, d)]
\* f < k, for a fraction f with d > 0.
LessThan(f, k) == f.n < k * f.d
\* The milliseconds of a number of minutes.
MsOf(f) == (f.n * MsPerMin) \div f.d

\* Mutant of convertMsToMin: the time is not rounded up to the minimum.
convertMsToMinUnrounded(timeMs) == Minutes(timeMs, MsPerMin)

\* convertMsToMin(timeMs), lines 110-122.
convertMsToMin(timeMs) ==
    LET timeMin == Minutes(timeMs, MsPerMin)
    IN  IF LessThan(timeMin, MINIMAL_INTERVAL_MIN)
        THEN Minutes(MINIMAL_INTERVAL_MIN, 1)
        ELSE timeMin

\* browser.alarms.create(name, info): an alarm of that name is replaced.
AlarmCreated(alarms, name, alarm) ==
    [a \in DOMAIN alarms \cup {name} |-> IF a = name THEN alarm ELSE alarms[a]]

AlarmCleared(alarms, name) == [a \in DOMAIN alarms \ {name} |-> alarms[a]]

\* createAlarm(alarmName, delay), lines 184-186.
createAlarm(t, alarmName, delay) ==
    AlarmCreated(t.alarms, alarmName,
                 [when |-> t.now + delay, periodic |-> FALSE,
                  periodInMinutes |-> Minutes(0, 1)])

\* createPeriodicAlarm(alarmName, periodInMinutes), lines 194-196: the alarm
\* fires first after one period.
createPeriodicAlarm(t, alarmName, periodInMinutes) ==
    AlarmCreated(t.alarms, alarmName,
                 [when |-> t.now + MsOf(periodInMinutes), periodic |-> TRUE,
                  periodInMinutes |-> periodInMinutes])

\* onAlarmFires(alarmName, callback), lines 214-220.
onAlarmFires(t, alarmName) ==
    t.listeners \cup {[name |-> alarmName, callback |-> t.nSet + 1]}

notTimers == <<otherComponents, clock, checker, editor, quick>>

AlarmClockTick ==
    /\ timers.now + AlarmTickMs <= MaxAlarmTime
    /\ timers' = [timers EXCEPT !.now = @ + AlarmTickMs]
    /\ UNCHANGED notTimers

\* setTimeout(callback, timeout), lines 132-137.
SetTimeout(timerId, timeout) ==
    /\ timers.nSet < MaxTimers
    /\ timers' = [timers EXCEPT
                     !.nSet = @ + 1,
                     !.alarms = createAlarm(timers, timerId, timeout),
                     !.listeners = onAlarmFires(timers, timerId),
                     !.last = [op |-> "setTimeout", id |-> timerId,
                               arg |-> timeout, at |-> timers.now]]
    /\ UNCHANGED notTimers

\* setInterval(callback, interval), lines 159-164.
SetInterval(timerId, interval) ==
    /\ timers.nSet < MaxTimers
    /\ timers' = [timers EXCEPT
                     !.nSet = @ + 1,
                     !.alarms = createPeriodicAlarm(timers, timerId,
                                                    convertMsToMin(interval)),
                     !.listeners = onAlarmFires(timers, timerId),
                     !.last = [op |-> "setInterval", id |-> timerId,
                               arg |-> interval, at |-> timers.now]]
    /\ UNCHANGED notTimers

\* clearTimeout(timerId) and clearInterval(intervalId) with an id that a set
\* call returned (lines 144-149, 171-176): clearAlarm is called, not awaited,
\* and runs up to its await of browser.alarms.get (204).
ClearCalled(op, timerId) ==
    /\ timers.nClear < MaxClears
    /\ \E l \in timers.listeners : l.name = timerId
    /\ \A c \in timers.clears : c.name # timerId
    /\ timers' = [timers EXCEPT
                     !.nClear = @ + 1,
                     !.clears = @ \cup {[name |-> timerId, pc |-> "get",
                                         found |-> FALSE]},
                     !.cleared = @ \cup {l.callback : l \in
                                    {x \in timers.listeners : x.name = timerId}},
                     !.last = [op |-> op, id |-> timerId, arg |-> 0,
                               at |-> timers.now]]
    /\ UNCHANGED notTimers

\* clearTimeout(undefined) and clearInterval(undefined) return at once.
ClearCalledWithUndefined(op) ==
    /\ timers.nClear < MaxClears
    /\ timers' = [timers EXCEPT
                     !.nClear = @ + 1,
                     !.last = [op |-> op, id |-> 0, arg |-> 0, at |-> timers.now]]
    /\ UNCHANGED notTimers

\* browser.alarms.get(alarmName) resolves, with the alarm or with undefined;
\* clearAlarm calls browser.alarms.clear(alarm?.name) and awaits it (204-205).
AlarmsGetResolves(c) ==
    /\ c \in timers.clears /\ c.pc = "get"
    /\ timers' = [timers EXCEPT
                     !.clears = (@ \ {c}) \cup
                                  {[c EXCEPT !.pc = "clear",
                                             !.found = (c.name \in DOMAIN timers.alarms)]}]
    /\ UNCHANGED notTimers

\* browser.alarms.clear(name) resolves: the alarm of that name, if the lookup
\* had found it, is gone.
AlarmsClearResolves(c) ==
    /\ c \in timers.clears /\ c.pc = "clear"
    /\ timers' = [timers EXCEPT
                     !.clears = @ \ {c},
                     !.alarms = IF c.found THEN AlarmCleared(@, c.name) ELSE @]
    /\ UNCHANGED notTimers

\* The browser fires an alarm that is due: every listener is called and those
\* that wait for its name invoke their callback (215-219); an alarm that is
\* not periodic is gone, a periodic one is due again after its period.
AlarmFires(name) ==
    /\ name \in DOMAIN timers.alarms
    /\ timers.now >= timers.alarms[name].when
    /\ LET called == {l.callback : l \in {x \in timers.listeners : x.name = name}}
           alarm == timers.alarms[name]
       IN  timers' = [timers EXCEPT
                        !.invoked = @ \cup called,
                        !.late = @ \cup (called \cap timers.cleared),
                        !.alarms = IF alarm.periodic
                                   THEN [@ EXCEPT ![name].when =
                                            timers.now + MsOf(alarm.periodInMinutes)]
                                   ELSE AlarmCleared(@, name)]
    /\ UNCHANGED notTimers

InitTimers ==
    /\ userRules = <<>>
    /\ enabledFilters = {"F1"}
    /\ active = NoConfig
    /\ limits = NoLimits
    /\ timerPending = FALSE
    /\ lastArgs = FALSE
    /\ procs = [p \in Procs |-> IdleProc]
    /\ notified = 0
    /\ nReq = 0
    /\ nDirect = 0
    /\ burstCalls = 0
    /\ burstInv = 0
    /\ burstArgs = <<>>
    /\ observed = NoLimits
    /\ initial = [rules |-> userRules, filters |-> enabledFilters]
    /\ clean = TRUE
    /\ prev = NoPrev
    /\ features = UserRulesOnly
    /\ bld = IdleBuild
    /\ nEdit = 0
    /\ nBuild = 0
    /\ life = IdleLife
    /\ filtering = TRUE
    /\ alerts = 0
    /\ nLife = 0
    /\ acked = FALSE
    /\ snaps = {}
    /\ clock = IdleClock
    /\ timers = NoTimers
    /\ checker = NoChecker
    /\ editor = NoEditor
    /\ quick = IdleQuick

NextTimers ==
    \/ AlarmClockTick
    \/ \E id \in TimerIds, timeout \in Timeouts : SetTimeout(id, timeout)
    \/ \E id \in TimerIds, interval \in Intervals : SetInterval(id, interval)
    \/ \E op \in {"clearTimeout", "clearInterval"}, id \in TimerIds :
          ClearCalled(op, id)
    \/ \E op \in {"clearTimeout", "clearInterval"} : ClearCalledWithUndefined(op)
    \/ \E c \in timers.clears : AlarmsGetResolves(c)
    \/ \E c \in timers.clears : AlarmsClearResolves(c)
    \/ \E name \in TimerIds : AlarmFires(name)

SpecTimers == InitTimers /\ [][NextTimers]_vars

\* ======================================================= UserRulesEditor
\* The texts of the editor and of the stored user rules; "" has length 0.
Contents == {"", "rule1", "rule2"}
\* messenger.setEditorStorageContent(null).
NullContent == "null"
Handlers == 1..MaxEvents

\* ace: setValue fires the 'change' event of the session unless it neither
\* removes nor inserts any text.
ChangeFires(old, new) == old # "" \/ new # ""

\* changeHandler.
changeHandler(e) == [e EXCEPT !.changed = TRUE]

\* editor.setValue(userRules, 1) alone: the flag is left as the change
\* handler sets it.
setValueOnly(e, text) ==
    LET set == [e EXCEPT !.content = text]
    IN  IF ChangeFires(e.content, text) THEN changeHandler(set) ELSE set

\* editor.setValue(userRules, 1), which may fire the change handler, then
\* store.setUserRulesEditorContentChangedState(false).
setValue(e, text) ==
    LET set == [e EXCEPT !.content = text]
        fired == IF ChangeFires(e.content, text) THEN changeHandler(set) ELSE set
    IN  [fired EXCEPT !.changed = FALSE]

\* The disabled or enabled export button.
setExport(e, text) == [e EXCEPT !.exportAvailable = (text # "")]

notEditor == <<otherComponents, clock, timers, checker, quick>>

\* The user edits the text: the session fires 'change'.
UserTypes(text) ==
    /\ editor.nTyped < MaxTyped
    /\ text # editor.content
    /\ editor' = [changeHandler(editor) EXCEPT !.content = text,
                                               !.typed = TRUE,
                                               !.nTyped = @ + 1]
    /\ UNCHANGED notEditor

\* The beforeunload listener of the fullscreen editor keeps the text as the
\* draft.
BeforeUnload ==
    /\ editor.changed
    /\ editor.draft # editor.content
    /\ editor' = [editor EXCEPT !.draft = editor.content]
    /\ UNCHANGED notEditor

\* UserFilterUpdated arrives, the user rules having become text (they are
\* changed from other places, or saved again as they are):
\* handleUserFilterUpdated sends GetUserRulesEditorData.
UserFilterUpdated(text) ==
    /\ editor.nEvents < MaxEvents
    /\ editor' = [editor EXCEPT
                    !.stored = text,
                    !.nEvents = @ + 1,
                    !.handlers = Append(@, [pc |-> "send", userRules |-> ""])]
    /\ UNCHANGED notEditor

\* The background reads the user rules for invocation h.
GetUserRulesEditorData(h) ==
    /\ h \in DOMAIN editor.handlers
    /\ editor.handlers[h].pc = "send"
    /\ editor' = [editor EXCEPT !.handlers[h] = [pc |-> "get",
                                                 userRules |-> editor.stored]]
    /\ UNCHANGED notEditor

\* The reply reaches invocation h: it tests the flag, and either sets the
\* value, resets the flag and sends setEditorStorageContent(null), or sets
\* the export button and returns.
FlagTested(h) ==
    /\ h \in DOMAIN editor.handlers
    /\ editor.handlers[h].pc = "get"
    /\ LET rules == editor.handlers[h].userRules
           replaced == ~editor.changed
           after == IF replaced
                    THEN [setValue(editor, rules) EXCEPT !.typed = FALSE,
                                                         !.handlers[h].pc = "clear"]
                    ELSE [setExport(editor, rules) EXCEPT !.handlers[h].pc = "done"]
       IN  editor' = [after EXCEPT !.checks = @ \cup
                        {[h |-> h, unsaved |-> editor.changed, typed |-> editor.typed,
                          replaced |-> replaced, userRules |-> rules,
                          before |-> editor.content, after |-> after.content,
                          changedAfter |-> after.changed,
                          draftBefore |-> editor.draft, draftAfter |-> after.draft,
                          exportBefore |-> editor.exportAvailable,
                          exportAfter |-> after.exportAvailable]}]
    /\ UNCHANGED notEditor

\* setEditorStorageContent(null) resolves for invocation h, which sets the
\* export button.
DraftCleared(h) ==
    /\ h \in DOMAIN editor.handlers
    /\ editor.handlers[h].pc = "clear"
    /\ editor' = [setExport(editor, editor.handlers[h].userRules) EXCEPT
                    !.draft = NullContent,
                    !.handlers[h].pc = "done"]
    /\ UNCHANGED notEditor

\* The editor after its first effect: it shows the draft when there is one,
\* which counts as changed, and the stored user rules otherwise; the draft
\* is cleared from the storage.
InitEditor ==
    /\ userRules = <<>>
    /\ enabledFilters = {}
    /\ active = NoConfig
    /\ limits = NoLimits
    /\ timerPending = FALSE
    /\ lastArgs = FALSE
    /\ procs = [p \in Procs |-> IdleProc]
    /\ notified = 0
    /\ nReq = 0
    /\ nDirect = 0
    /\ burstCalls = 0
    /\ burstInv = 0
    /\ burstArgs = <<>>
    /\ observed = NoLimits
    /\ initial = [rules |-> userRules, filters |-> enabledFilters]
    /\ clean = TRUE
    /\ prev = NoPrev
    /\ features = UserRulesOnly
    /\ bld = IdleBuild
    /\ nEdit = 0
    /\ nBuild = 0
    /\ life = IdleLife
    /\ filtering = TRUE
    /\ alerts = 0
    /\ nLife = 0
    /\ acked = FALSE
    /\ snaps = {}
    /\ clock = IdleClock
    /\ timers = NoTimers
    /\ checker = NoChecker
    /\ \E rules \in Contents, editorContent \in (Contents \ {""}) \cup {NullContent} :
          editor = [NoEditor EXCEPT
                      !.stored = rules,
                      !.content = IF editorContent = NullContent THEN rules
                                  ELSE editorContent,
                      !.changed = (editorContent # NullContent),
                      !.typed = (editorContent # NullContent),
                      !.draft = NullContent,
                      !.exportAvailable = (rules # "")]
    /\ quick = IdleQuick

NextEditor ==
    \/ \E text \in Contents : UserTypes(text)
    \/ BeforeUnload
    \/ \E text \in Contents : UserFilterUpdated(text)
    \/ \E h \in Handlers : GetUserRulesEditorData(h)
    \/ \E h \in Handlers : FlagTested(h)
    \/ \E h \in Handlers : DraftCleared(h)

SpecEditor == InitEditor /\ [][NextEditor]_vars


\* ==================================================== QuickFixesRulesApi
notQuick == <<builder, lifecycle, acked, clock, timers, checker, editor>>

\* loadAndEnableQuickFixesRules(reloadEngine) up to its await: the update of
\* the metadata is started and not awaited, the rules are asked of the
\* backend.
LoadAndEnableCalled(reloadEngine) ==
    /\ quick.pc # "load"
    /\ quick.n < MaxQuick
    /\ quick' = [IdleQuick EXCEPT !.pc = "load", !.reloadEngine = reloadEngine,
                                  !.log = <<"metadata", "load">>,
                                  !.before = enabledFilters,
                                  !.direct = nDirect,
                                  !.n = quick.n + 1]
    /\ UNCHANGED <<notQuick, engineAndRegistry>>

\* Mutant of LoadRejects: the failure is swallowed and the filter enabled all
\* the same.
LoadRejectsButEnables ==
    /\ quick.pc = "load"
    /\ quick' = [quick EXCEPT !.pc = "returned", !.log = @ \o <<"failed", "enable">>]
    /\ enabledFilters' = enabledFilters \cup {QuickFixesFilterId}
    /\ UNCHANGED <<notQuick, userRules, engine>>

\* CommonFilterApi.loadFilterRulesFromBackend rejects, and the call with it.
LoadRejects ==
    /\ quick.pc = "load"
    /\ quick' = [quick EXCEPT !.pc = "rejected", !.log = Append(@, "failed")]
    /\ UNCHANGED <<notQuick, engineAndRegistry>>

\* The rules are loaded: the filter is enabled, engine.update() is called if
\* reloadEngine, and not awaited, and the promise of the call resolves.
LoadResolves ==
    /\ quick.pc = "load"
    /\ quick.reloadEngine => FreeSlots # {}
    /\ enabledFilters' = enabledFilters \cup {QuickFixesFilterId}
    /\ LET enabling == QuickFixesFilterId \notin enabledFilters
           ps == IF enabling THEN Outdated(procs) ELSE procs
           started == [StartedUpdate(FALSE, 0, enabledFilters')
                          EXCEPT !.second = (InSuccession /\ ~enabling)]
       IN  /\ procs' = IF quick.reloadEngine THEN [ps EXCEPT ![NextSlot] = started]
                       ELSE ps
           /\ prev' = IF enabling THEN NoPrev ELSE prev
           /\ nDirect' = IF quick.reloadEngine THEN nDirect + 1 ELSE nDirect
           /\ quick' = [quick EXCEPT
                  !.pc = "returned",
                  !.log = @ \o (IF quick.reloadEngine
                                THEN <<"loaded", "enable", "update">>
                                ELSE <<"loaded", "enable">>),
                  !.read = IF quick.reloadEngine THEN started.cfg.staticFiltersIds
                           ELSE {},
                  !.atReturn = IF quick.reloadEngine THEN started.pc ELSE "none"]
    /\ clean' = FALSE
    /\ UNCHANGED <<notQuick, userRules, active, limits, debouncer, notified,
                   observed, nReq, initial>>

InitQuick ==
    /\ userRules \in InitialRules
    /\ enabledFilters \in InitialFilters \cup {{"F1", QuickFixesFilterId}}
    /\ active = NoConfig
    /\ limits = NoLimits
    /\ timerPending = FALSE
    /\ lastArgs = FALSE
    /\ procs = [p \in Procs |-> IdleProc]
    /\ notified = 0
    /\ nReq = 0
    /\ nDirect = 0
    /\ burstCalls = 0
    /\ burstInv = 0
    /\ burstArgs = <<>>
    /\ observed = NoLimits
    /\ initial = [rules |-> userRules, filters |-> enabledFilters]
    /\ clean = TRUE
    /\ prev = NoPrev
    /\ features = UserRulesOnly
    /\ bld = IdleBuild
    /\ nEdit = 0
    /\ nBuild = 0
    /\ life = IdleLife
    /\ filtering = TRUE
    /\ alerts = 0
    /\ nLife = 0
    /\ acked = FALSE
    /\ snaps = {}
    /\ clock = IdleClock
    /\ timers = NoTimers
    /\ checker = NoChecker
    /\ editor = NoEditor
    /\ quick = IdleQuick

NextQuick ==
    \/ \E reloadEngine \in BOOLEAN : LoadAndEnableCalled(reloadEngine)
    \/ LoadRejects
    \/ LoadResolves
    \/ UpdateRuns

SpecQuick == InitQuick /\ [][NextQuick]_vars


\* ================================================================ claims
InFlight == {p \in Procs : procs[p].pc = "configure"}
Running == {p \in Procs : procs[p].pc \notin {"idle", "done"}}
Quiescent == ~timerPending /\ Running = {}
CurrentConfiguration == ConfigurationOf(userRules, enabledFilters)

\* The step in which api.configure of invocation p resolves or rejects, and
\* the one in which the storage read of p fails.
Resolving(p) == procs[p].pc = "configure" /\ procs'[p].reply = "resolved"
Rejecting(p) == procs[p].pc = "configure" /\ procs'[p].reply = "rejected"
FailingRead(p) == procs[p].pc = "build" /\ procs'[p].io = "failed"
\* The step in which UserRulesApi.disableUserRules, awaited by p, completes.
Disabling(p) == procs[p].pc = "disable" /\ procs'[p].pc = "done"

\* C1: in every reachable state at most one api.configure call is in flight.
\* (Engine.update has no lock: the code violates it.)
C1_MutualExclusion == Cardinality(InFlight) <= 1

\* C2, as claimed: a burst of debounceUpdate calls starts no update while its
\* timer runs and exactly one when it expires, and every update started by the
\* timer has made exactly one api.configure call when it settles.
C2_ExactlyOneConfigure ==
    [][\A p \in Procs :
          (procs[p].n > 0 /\ procs[p].pc # "done" /\ procs'[p].pc = "done")
             => procs'[p].calls = 1]_vars

\* C2, as amended: a burst of debounceUpdate calls starts no update while its
\* timer runs (the configuration is read after the last call) and exactly one
\* when it expires; that update makes exactly one api.configure call, or none
\* when reading a custom filter fails.
C2_Coalescing ==
    /\ [](/\ burstInv <= 1
          /\ timerPending => burstInv = 0
          /\ (~timerPending /\ burstCalls > 0) => burstInv = 1
          /\ \A p \in Procs : procs[p].pc = "configure" => procs[p].calls = 1)
    /\ [][\A p \in Procs :
            (procs[p].n > 0 /\ procs[p].pc # "done" /\ procs'[p].pc = "done")
               => \/ procs'[p].calls = 1
                  \/ procs'[p].calls = 0 /\ procs'[p].io = "failed"]_vars

\* Two calls have been coalesced into one update, whose api.configure call is
\* in flight, and no other update has run.
C2_Witness ==
    \E p \in Procs :
        /\ procs[p].n >= 2 /\ procs[p].pc = "configure"
        /\ Running = {p} /\ ~timerPending /\ notified = 0

\* C3: no update whose configuration was read before a change of the registry
\* completes after an update that was started after that change.
C3_NoStaleOverwrite ==
    \A p \in Procs : ~(procs[p].superseded /\ procs[p].reply = "resolved")

\* C4: the rules passed to UserRulesApi.disableUserRules are exactly the user
\* rules of the applied configuration whose text is that of a rejected rule,
\* and when the call completes exactly the stored lines with those texts are
\* gone and no filter has changed state.
C4_ExactRemediation ==
    /\ [](\A p \in Procs : procs[p].pc = "disable" =>
            /\ Range(procs[p].arg) =
                 {r \in Range(procs[p].cfg.userrules) :
                     \E e \in ErrorsOf(procs[p].cfg) : e.hasRule /\ e.text = r}
            /\ procs[p].arg = Filter(procs[p].cfg.userrules, Range(procs[p].arg)))
    /\ [][\A p \in Procs : Disabling(p) =>
            /\ enabledFilters' = enabledFilters
            /\ userRules' = Filter(userRules,
                                   Range(userRules) \ Range(procs[p].arg))]_vars

\* disableUserRules is about to be called with some, not all, of the user
\* rules of the configuration.
C4_Witness ==
    \E p \in Procs :
        /\ procs[p].pc = "disable" /\ procs[p].arg # <<>>
        /\ Range(procs[p].arg) # Range(procs[p].cfg.userrules)
        /\ Range(procs[p].arg) \subseteq Range(userRules)

\* C5: when the remediation has disabled rejected user rules, exactly one
\* update is requested (one debounceUpdate call) as it completes; an update
\* whose result has no error disables nothing and requests nothing, so that
\* it leaves the controller idle.
C5_CorrectiveReapply ==
    /\ [](\A p \in Procs : procs[p].pc = "disable" => ErrorsOf(procs[p].cfg) # {})
    /\ [][\A p \in Procs :
            /\ (Disabling(p) /\ userRules' # userRules) =>
                  /\ timerPending' /\ burstInv' = 0
                  /\ burstCalls' = IF timerPending THEN burstCalls + 1 ELSE 1
            /\ (Disabling(p) /\ userRules' = userRules) =>
                  UNCHANGED <<timerPending, burstCalls, burstInv>>
            /\ (procs[p].pc \in {"configure", "check", "nested"}
                  /\ procs'[p].pc # procs[p].pc /\ procs'[p].reply # "rejected"
                  /\ procs[p].cfg.built /\ ErrorsOf(procs[p].cfg) = {})
                 => /\ procs'[p].pc \in {"configure", "check", "nested", "done"}
                    /\ UNCHANGED <<registry, timerPending, burstCalls, burstInv>>
         ]_vars

\* The corrective update, requested by the remediation of a first update, has
\* been applied with no error left and the controller is idle.
C5_Witness ==
    /\ Quiescent /\ clean /\ nReq = 1 /\ notified = 2
    /\ initial.rules # userRules
    /\ active = CurrentConfiguration /\ ErrorsOf(active) = {}

\* C6: when no user rule of the configuration has the text of a rejected
\* rule, UserRulesApi.disableUserRules is not called, not with an empty list
\* either. (The code calls it with the empty list.)
C6_NoCallWithoutMatch ==
    \A p \in Procs : procs[p].pc = "disable" => procs[p].arg # <<>>

\* C7: when api.configure rejects, update rejects with the error, the limits
\* are not set, nobody is notified, the registry and the debounce timer are
\* untouched, and the slot of the update is free for a new one (a nested
\* update hands the rejection to the update that awaits it).
C7_ApplyFailure ==
    /\ [](\A p \in Procs : procs[p].reply = "rejected" =>
            procs[p].pc = "done" /\ procs[p].err = "RuntimeApplyFailed")
    /\ [][\A p \in Procs : Rejecting(p) =>
            /\ procs'[p].pc = "done" /\ procs'[p].err = "RuntimeApplyFailed"
            /\ UNCHANGED <<limits, notified, observed, active, registry, debouncer>>
            /\ procs[p].parent = 0 => (p \in FreeSlots)'
            /\ \A q \in Procs \ {p} : procs'[q] = procs[q]]_vars

\* api.configure has rejected after an earlier update had set the limits.
C7_Witness ==
    \E p \in Procs : procs[p].reply = "rejected" /\ limits.set /\ notified > 0

\* C8: when reading the content of an enabled custom filter fails, update
\* ends with the error without having called api.configure; the runtime keeps
\* its configuration, the limits are unchanged and nobody is notified.
C8_SourceUnavailable ==
    /\ [](\A p \in Procs : procs[p].io = "failed" =>
            /\ procs[p].pc = "done" /\ procs[p].err = "SourceUnavailable"
            /\ procs[p].calls = 0)
    /\ [][\A p \in Procs : FailingRead(p) =>
            UNCHANGED <<active, limits, notified, observed, registry, debouncer>>]_vars

\* A read has failed while the runtime runs an earlier configuration.
C8_Witness ==
    \E p \in Procs : procs[p].io = "failed" /\ active.built /\ limits.set

\* C9: when api.configure resolves, the limits are set to its result and one
\* RequestFilterUpdated notification is sent, whatever skipLimitsCheck and the
\* errors of the result; the limits check is awaited iff ~skipLimitsCheck.
C9_PostApply ==
    /\ [](\A p \in Procs : procs[p].pc \in {"check", "nested"} =>
            ~procs[p].skip /\ procs[p].reply = "resolved")
    /\ [][\A p \in Procs : Resolving(p) =>
            /\ limits' = ResultOf(procs[p].cfg)
            /\ notified' = notified + 1
            /\ (procs'[p].pc = "check") <=> ~procs[p].skip]_vars

\* An update with skipLimitsCheck whose result has errors went on to the
\* remediation with the limits set and without the limits check.
C9_Witness ==
    \E p \in Procs :
        /\ procs[p].skip /\ procs[p].reply = "resolved" /\ procs[p].pc = "disable"
        /\ limits = ResultOf(procs[p].cfg) /\ notified > 0

\* C10: from the registry with filter F1 enabled and the one user rule "bad",
\* which the runtime rejects, after a single debounceUpdate call and with no
\* failure the controller comes to rest only after two applies: the rule is
\* disabled, the runtime runs a configuration with no rejected rule and the
\* listeners have been notified exactly twice.
C10_Scenario ==
    /\ initial = [rules |-> <<"bad">>, filters |-> {"F1"}]
    /\ clean /\ nReq = 1 /\ Quiescent
    => /\ notified = 2
       /\ userRules = <<>>
       /\ active = CurrentConfiguration
       /\ ErrorsOf(active) = {}
       /\ limits = ResultOf(active)

\* The scenario has come to rest.
C10_Witness ==
    /\ initial = [rules |-> <<"bad">>, filters |-> {"F1"}]
    /\ clean /\ nReq = 1 /\ Quiescent /\ notified = 2 /\ userRules = <<>>

\* The step in which the update p settles, its api.configure call resolved.
Completing(p) ==
    /\ procs[p].pc \in {"configure", "check", "nested", "disable"}
    /\ procs'[p].pc = "done" /\ procs'[p].reply = "resolved"

\* C12, as claimed: after one debounceUpdate call and with no failure the
\* number of applies is bounded by the number of stored user rules, and an
\* update that settles with no rule removed and no corrective update
\* requested, while the runtime still rejects rules of its configuration,
\* reports the rejection as an unrecovered error. (update settles with no
\* error and nobody is told, with or without a remediation pass.)
C12_BoundedRemediation ==
    /\ []((clean /\ nReq <= 1) => notified <= 1 + Len(initial.rules))
    /\ [][\A p \in Procs :
            (/\ Completing(p) /\ procs[p].parent = 0
             /\ ErrorsOf(procs[p].cfg) # {}
             /\ UNCHANGED <<registry, timerPending>>)
               => procs'[p].err = "UnrecoveredRejection"]_vars

\* C13: UserRulesApi.disableUserRules is reached only when an error of
\* result.dynamicRules.errors carries a rule, and only with user rules of the
\* configuration; an update whose result has errors against static filters,
\* or dynamic errors without a rule, only, changes no user rule, and no update
\* ever changes the state of a filter.
C13_OnlyDynamicRemediated ==
    /\ [](\A p \in Procs : procs[p].pc = "disable" =>
            /\ \E e \in ResultOf(procs[p].cfg).errors : e.hasRule
            /\ Range(procs[p].arg) \subseteq Range(procs[p].cfg.userrules)
            /\ Range(procs[p].arg) \subseteq BadRules)
    /\ [][/\ userRules' # userRules =>
               \/ nReq' # nReq
               \/ \E p \in Procs :
                     /\ Disabling(p)
                     /\ Range(userRules) \ Range(userRules') \subseteq BadRules
          /\ enabledFilters' # enabledFilters =>
               (nReq' # nReq \/ nDirect' # nDirect)]_vars

\* An update whose result reports an error against a static filter and a
\* dynamic error without a rule has settled and has left the registry alone.
C13_Witness ==
    /\ Quiescent /\ clean /\ nReq = 1 /\ notified = 1
    /\ userRules = initial.rules /\ enabledFilters = initial.filters
    /\ limits.staticErrors # {}
    /\ \E e \in limits.errors : ~e.hasRule
    /\ \A p \in Procs : procs[p].pc = "done" => procs[p].reply = "resolved"

\* C18: an update started, with no other running, after an apply that read
\* the registry as it still is, and during which the registry does not
\* change, calls api.configure with the configuration of that apply, leaves
\* the limits that apply left (the runtime answers the same to the same
\* configuration) and removes no user rule.
C18_ApplyIdempotence ==
    /\ [](\A p \in Procs : (procs[p].second /\ procs[p].pc = "configure") =>
            (prev.ok /\ procs[p].cfg = prev.cfg))
    /\ [][\A p \in Procs :
            /\ (Resolving(p) /\ procs[p].second) =>
                  (limits' = prev.limits /\ active' = prev.cfg)
            /\ (Disabling(p) /\ procs[p].second) => UNCHANGED registry]_vars

\* A second update, run after a first one on the same registry, has applied
\* the same configuration, which the runtime rejects a rule of, and is about
\* to call UserRulesApi.disableUserRules as the first one did.
C18_Witness ==
    \E p \in Procs :
        /\ procs[p].second /\ procs[p].pc = "disable"
        /\ prev.ok /\ procs[p].cfg = prev.cfg /\ limits = prev.limits
        /\ notified = 2 /\ nReq = 2

\* ------------------------------------------------ claims about SpecBuild
NoDuplicate(s) == \A i, j \in DOMAIN s : s[i] = s[j] => i = j

\* C14: when the user rules are enabled, the userrules list getConfiguration
\* hands on, after the conversion, has no empty string and no duplicate and
\* keeps the lines in the order of their first occurrence. (The duplicates
\* are removed before the conversion: two lines that convert to the same rule
\* are both kept.)
C14_Deduplicated ==
    (bld.pc \in {"filters", "done"} /\ bld.gate) =>
        /\ "" \notin Range(bld.userrules)
        /\ NoDuplicate(bld.userrules)
        /\ bld.userrules = Dedup(convertRules(NonEmptyRules(bld.got)), {})

\* C15: when UserRulesApi.isEnabled() is false at the call, the userrules of
\* the configuration are empty whatever is stored, and
\* UserRulesApi.getUserRules is not called.
C15_UserRuleGate ==
    (bld.pc # "idle" /\ ~bld.at.features.userRulesEnabled) =>
        /\ bld.pc # "rules"
        /\ ~bld.readRules
        /\ bld.userrules = <<>>
        /\ Returned(bld).userrules = <<>>

\* A configuration was built with the user rules disabled while rules were
\* stored.
C15_Witness ==
    /\ bld.pc = "done" /\ ~bld.at.features.userRulesEnabled
    /\ NonEmptyRules(userRules) # <<>> /\ userRules = bld.at.rules

\* C16: the allowlist of the configuration is empty when the allow-list is
\* disabled, the inverted domain list when it is enabled and
\* allowlistInverted is true, and the normal domain list when it is enabled
\* and allowlistInverted is false.
C16_Allowlist ==
    bld.pc # "idle" =>
        LET f == bld.at.features
            a == Returned(bld).allowlist
        IN  /\ ~f.allowlistEnabled => a = <<>>
            /\ (f.allowlistEnabled /\ f.allowlistInverted) => a = f.invertedAllowlist
            /\ (f.allowlistEnabled /\ ~f.allowlistInverted) => a = f.allowlist
            /\ a \in {<<>>, f.invertedAllowlist, f.allowlist}
            /\ Returned(bld).settings.allowlistInverted = f.allowlistInverted

\* A configuration with the inverted allow-list has been built.
C16_Witness ==
    /\ bld.pc = "done"
    /\ bld.at.features.allowlistEnabled /\ bld.at.features.allowlistInverted
    /\ Returned(bld).allowlist = InvertedAllowlistDomains
    /\ InvertedAllowlistDomains # AllowlistDomains

\* C17: in a configuration built while the registry did not change, every
\* enabled filter that is not custom is in staticFiltersIds and no other is;
\* every enabled custom filter has exactly one payload, made of its
\* identifier, its stored lines joined by newline and its trust flag, and no
\* other filter has one. (The payloads carry no trust flag.)
C17_FilterPartition ==
    (bld.pc = "done" /\ nEdit = 0) =>
        LET cfg == Returned(bld)
            on == bld.at.filters
        IN  /\ cfg.staticFiltersIds = {f \in on : ~isCustomFilter(f)}
            /\ {c.filterId : c \in cfg.customFilters} = {f \in on : isCustomFilter(f)}
            /\ cfg.staticFiltersIds \cap {c.filterId : c \in cfg.customFilters} = {}
            /\ \A c, d \in cfg.customFilters : c.filterId = d.filterId => c = d
            /\ \A c \in cfg.customFilters :
                  /\ c.content = JoinLines(StoredLines(c.filterId))
                  /\ "trusted" \in DOMAIN c
                  /\ c.trusted = (c.filterId \in bld.at.features.trusted)

\* C19: no step of getConfiguration changes the registry: the stored user
\* rules, the state of the filters, the settings and the allow-list are after
\* the step what they were before it.
C19_BuilderFrame ==
    [][bld' # bld => UNCHANGED <<userRules, enabledFilters, features>>]_vars

\* getConfiguration has read stored user rules with an empty line or a
\* duplicate, and the contents of a custom filter, and has returned.
C19_Witness ==
    /\ bld.pc = "done" /\ bld.readRules /\ bld.customFilters # {}
    /\ Len(bld.userrules) < Len(bld.got) /\ userRules = bld.got

\* ------------------------------------------------ claims about SpecLife
\* C11: a "limits exceeded" alert is shown once per change of the limits to
\* exceeded: every step shows at most one alert, and shows none when an alert
\* has been shown since the limits last became exceeded (acked), however
\* many applies and starts follow with the limits still exceeded.
C11_AlertOncePerChange ==
    [][alerts' # alerts => (alerts' = alerts + 1 /\ ~acked)]_vars

\* C20: when setFilteringState(isFilteringEnabled) has completed without an
\* error, the runtime filters exactly if isFilteringEnabled is true.
C20_FilteringStateIsArgument ==
    (life.pc = "done" /\ life.op = "setFilteringState" /\ life.err = "none")
        => filtering = life.arg

\* The configuration getConfiguration makes of a registry read all at once.
SnapshotConfiguration(reg) ==
    [filteringLogEnabled |-> FALSE,
     customFilters |-> customFiltersOf(customFiltersIdsOf(reg.filters)),
     verbose |-> FALSE,
     staticFiltersIds |-> staticFiltersIdsOf(reg.filters),
     userrules |-> IF reg.features.userRulesEnabled THEN userrulesOf(reg.rules)
                   ELSE <<>>,
     allowlist |-> allowlistOf(reg.features),
     settings |-> [allowlistInverted |-> reg.features.allowlistInverted]]

\* C22: the configuration getConfiguration returns is the configuration of
\* one of the registries there have been between its call and its return,
\* and a filter that was enabled in all of them is among its static filter
\* ids or has a payload. (The static filters are read before the await of the
\* user rules and the custom filters after it: the configuration can be that
\* of no registry there has been.)
C22_OneSnapshot ==
    bld.pc = "done" =>
        /\ \E reg \in snaps : Returned(bld) = SnapshotConfiguration(reg)
        /\ \A f \in Filters :
              (\A reg \in snaps : f \in reg.filters) =>
                  \/ f \in Returned(bld).staticFiltersIds
                  \/ \E c \in Returned(bld).customFilters : c.filterId = f

\* ------------------------------------------------- more claims about Spec
Last(s) == s[Len(s)]

\* C23: an update started by the debounce timer runs with the skipLimitsCheck
\* of the last debounceUpdate call of its burst, whatever the earlier calls
\* passed, and once its api.configure call has resolved it has gone on to the
\* limits check exactly if that last argument is false.
C23_LastArgumentWins ==
    \A p \in Procs :
        procs[p].burst # <<>> =>
            /\ procs[p].pc # "done" =>
                  (procs[p].skip = Last(procs[p].burst)
                     /\ Len(procs[p].burst) = procs[p].n)
            /\ procs[p].log # <<>> =>
                  ("check" \in Range(procs[p].log) <=> ~Last(procs[p].burst))
            /\ procs[p].pc \in {"check", "nested"} => ~Last(procs[p].burst)

\* A burst of a call that asked for the limits check and a last call that
\* opted out has been applied and has ended without a limits check.
C23_Witness ==
    \E p \in Procs :
        /\ procs[p].burst = <<FALSE, TRUE>>
        /\ procs[p].pc = "done" /\ procs[p].reply = "resolved"
        /\ "check" \notin Range(procs[p].log)
        /\ procs[p].log # <<>>

\* C24: in an update whose api.configure call resolved, the limits are set,
\* then the listeners are notified, then the limits check is made (unless
\* skipped), and only then are rejected user rules disabled; a listener that
\* reads the limits as it is notified reads those of the result of this
\* apply, and the step that notifies changes no user rule, nor does the
\* disabling notify anybody.
C24_OrderInUpdate ==
    /\ [](\A p \in Procs :
            /\ procs[p].log \in {<<>>, <<"set", "notify">>,
                                  <<"set", "notify", "check">>,
                                  <<"set", "notify", "disable">>,
                                  <<"set", "notify", "check", "disable">>}
            /\ procs[p].pc = "disable" => Last(procs[p].log) = "disable"
            /\ procs[p].pc \in {"check", "nested"} => Last(procs[p].log) = "check")
    /\ [][\A p \in Procs :
            /\ Resolving(p) =>
                  /\ observed' = ResultOf(procs[p].cfg)
                  /\ UNCHANGED registry
                  /\ Range(procs[p].cfg.userrules) \cap BadRules
                        \subseteq Range(procs'[p].cfg.userrules)
            /\ Disabling(p) => UNCHANGED <<notified, limits, observed>>]_vars

\* An update has set the limits, notified, made the limits check and is about
\* to disable a user rule that is still stored, after an earlier update had
\* left other limits.
C24_Witness ==
    \E p \in Procs :
        /\ procs[p].log = <<"set", "notify", "check", "disable">>
        /\ procs[p].pc = "disable" /\ procs[p].arg # <<>>
        /\ Range(procs[p].arg) \subseteq Range(userRules)
        /\ observed = ResultOf(procs[p].cfg)
        /\ notified = 2

\* ----------------------------------------------- claims about SpecDebounce
\* C21: an update is started for a burst of debounceUpdate calls only when
\* at least UPDATE_TIMEOUT_MS have passed since the most recent call, never
\* by the call itself, and once a call is made an update is started in the
\* end, with the timer of the burst gone.
C21_TrailingEdge ==
    /\ [][/\ burstInv' > burstInv =>
               (/\ clock.now - clock.calledAt >= UPDATE_TIMEOUT_MS
                /\ nReq' = nReq
                /\ ~timerPending')
          /\ nReq' # nReq => (procs' = procs /\ timerPending')]_vars
    /\ (timerPending ~> (~timerPending /\ burstInv = 1))

\* An update has been started for a burst of two calls, the second of which
\* came before the wait of the first was over: a full wait after the second.
C21_Witness ==
    /\ burstCalls = 2 /\ burstInv = 1 /\ ~timerPending
    /\ clock.calledAt > 0 /\ clock.calledAt < UPDATE_TIMEOUT_MS
    /\ clock.now = clock.calledAt + UPDATE_TIMEOUT_MS

\* ------------------------------------------------ claims about SpecChecker
\* The step in which the call in slot c is made, and the one in which it
\* gets its result from the API or its failure.
CallingCheck(c) == checker'.nChecks = checker.nChecks + 1 /\ checker'.calls[c] # checker.calls[c]
StoringCheck(c) == checker.calls[c].pc = "api" /\ checker'.calls[c].pc = "done"

\* C25: when its calls have ended, a SafetyChecker has called the API at most
\* once for a script text; a call
\* for a text that is in the cache calls no API and returns the stored
\* result, an error result too; every call that has ended has a result for
\* its text; and every result in the cache is in the cache file. (Two calls
\* for the same text that are in flight together both call the API.)
C25_CacheAvoidsRepeatedCalls ==
    /\ [](/\ (\A c \in CheckSlots : checker.calls[c].pc # "api") =>
                (\A t \in ScriptTexts : checker.apiCalls[t] <= 1)
          /\ \A c \in CheckSlots :
                checker.calls[c].pc = "done" =>
                    checker.calls[c].result.rule = checker.calls[c].text
          /\ \A t \in DOMAIN checker.cache :
                /\ checker.file.readable
                /\ t \in DOMAIN checker.file.data
                /\ checker.file.data[t] = checker.cache[t])
    /\ [][\A c \in CheckSlots :
            (CallingCheck(c) /\ checker'.calls[c].text \in DOMAIN checker.cache) =>
                /\ checker'.apiCalls = checker.apiCalls
                /\ checker'.cache = checker.cache
                /\ checker'.calls[c].pc = "done"
                /\ checker'.calls[c].result = checker.cache[checker'.calls[c].text]
         ]_vars

\* C26: a SafetyChecker starts with the entries of the cache file exactly if
\* the file is readable and its hash is that of the scanner config, and with
\* no entry otherwise; every save writes the hash of the scanner config and
\* the entries in memory; so every result in the cache, and every result a
\* call returns, was produced under the scanner config of the checker.
C26_CacheInvalidation ==
    /\ [](/\ \A t \in DOMAIN checker.cache :
                checker.cache[t].under = checker.config
          /\ \A c \in CheckSlots :
                checker.calls[c].pc = "done" =>
                    checker.calls[c].result.under = checker.config)
    /\ [][/\ checker'.nRuns # checker.nRuns =>
               /\ checker'.file = checker.file
               /\ IF checker.file.readable
                     /\ checker.file.hash = ConfigHash(checker'.config)
                  THEN checker'.cache = checker.file.data
                  ELSE checker'.cache = EmptyCache
          /\ \A c \in CheckSlots : StoringCheck(c) =>
               /\ checker'.file.readable
               /\ checker'.file.hash = ConfigHash(checker.config)
               /\ checker'.file.data = checker'.cache]_vars

\* A SafetyChecker has found a cache file with a result for s1 saved under
\* another scanner config, has started with no entry and has called the API
\* for s1.
C26_Witness ==
    /\ checker.file.readable
    /\ checker.file.hash # ConfigHash(checker.config)
    /\ DOMAIN checker.file.data = {"s1"}
    /\ checker.cache = EmptyCache
    /\ \E c \in CheckSlots :
          checker.calls[c].pc = "api" /\ checker.calls[c].text = "s1"

\* ------------------------------------------------- claims about SpecTimers
\* C27: no callback is invoked after clearTimeout or clearInterval was called
\* with the id of its timer, and a clear call with undefined changes no alarm.
\* (clearAlarm clears the alarm only after two awaits, and the alarm may fire
\* before.)
C27_ClearedTimersDoNotFire ==
    /\ [](timers.late = {})
    /\ [][(timers'.nClear # timers.nClear /\ timers'.last.id = 0) =>
            /\ timers'.alarms = timers.alarms
            /\ timers'.clears = timers.clears]_vars

\* C28: setInterval creates a periodic alarm whose period in minutes is
\* interval / 60000 when that is at least 1, and 1 when it is less, so that it
\* is never below one minute; setTimeout creates an alarm that is not
\* periodic, for the time of the call plus the timeout, to the millisecond.
C28_IntervalClamping ==
    [][/\ (timers'.nSet # timers.nSet /\ timers'.last.op = "setInterval") =>
            LET alarm == timers'.alarms[timers'.last.id]
                period == alarm.periodInMinutes
                interval == timers'.last.arg
            IN  /\ alarm.periodic
                /\ period.d > 0 /\ period.n >= period.d
                /\ interval >= MsPerMin => period.n * MsPerMin = interval * period.d
                /\ interval < MsPerMin => period.n = period.d
       /\ (timers'.nSet # timers.nSet /\ timers'.last.op = "setTimeout") =>
            LET alarm == timers'.alarms[timers'.last.id]
            IN  /\ ~alarm.periodic
                /\ alarm.when = timers.now + timers'.last.arg]_vars

\* A periodic alarm of one minute has been created for an interval of half a
\* minute, at a time other than 0.
C28_Witness ==
    /\ timers.last.op = "setInterval" /\ timers.last.arg = 30000
    /\ timers.last.at > 0 /\ timers.last.at = timers.now
    /\ timers.last.id \in DOMAIN timers.alarms
    /\ timers.alarms[timers.last.id].periodInMinutes = Minutes(1, 1)
    /\ timers.alarms[timers.last.id].when = timers.now + MsPerMin

\* C29: unsaved editor content is never overwritten. At its test of the flag,
\* made when the user rules have been fetched, handleUserFilterUpdated
\* replaces the content only if the flag is not set, and then the content is
\* the fetched rules and the flag is not set afterwards, whether or not the
\* change handler fired; if the flag is set (and whenever the user has typed
\* since the content was last set) the content and the draft stay as they
\* are and only the export button is set, to whether there are user rules.
C29_UnsavedNeverOverwritten ==
    \A c \in editor.checks :
        /\ c.replaced => /\ ~c.unsaved
                         /\ ~c.typed
                         /\ c.after = c.userRules
                         /\ ~c.changedAfter
        /\ (c.unsaved \/ c.typed) =>
                         /\ ~c.replaced
                         /\ c.after = c.before
                         /\ c.changedAfter
                         /\ c.draftAfter = c.draftBefore
                         /\ c.exportAfter = (c.userRules # "")
                         /\ editor.handlers[c.h].pc = "done"
\* Both cases have happened: one invocation found typed text that differs
\* from the fetched rules and left it, with a draft in the storage; another
\* replaced a different text, and the change handler fired.
C29_Witness ==
    /\ \E c \in editor.checks :
          c.unsaved /\ c.typed /\ c.before # c.userRules /\ c.draftBefore # NullContent
    /\ \E c \in editor.checks :
          c.replaced /\ c.before # c.after /\ ChangeFires(c.before, c.after)

\* C30: loadAndEnableQuickFixesRules enables the quick-fixes filter only
\* after its rules were loaded: while the load is awaited the enabled filters
\* are as they were; if the load fails the filter is not enabled and no
\* update is started; when the call returns the filter is enabled, the
\* engine update was called if and only if reloadEngine is true, as the last
\* thing after the enabling, so that it reads the filter as enabled, and it
\* has not finished when the promise of the call resolves.
C30_QuickFixesOrdering ==
    /\ quick.pc = "load" =>
          /\ quick.log = <<"metadata", "load">>
          /\ enabledFilters = quick.before
    /\ quick.pc = "rejected" =>
          /\ quick.log = <<"metadata", "load", "failed">>
          /\ enabledFilters = quick.before
          /\ nDirect = quick.direct
          /\ quick.atReturn = "none"
    /\ quick.pc = "returned" =>
          /\ QuickFixesFilterId \in enabledFilters
          /\ quick.log = IF quick.reloadEngine
                         THEN <<"metadata", "load", "loaded", "enable", "update">>
                         ELSE <<"metadata", "load", "loaded", "enable">>
          /\ quick.reloadEngine <=> quick.atReturn # "none"
          /\ nDirect = quick.direct + (IF quick.reloadEngine THEN 1 ELSE 0)
          /\ quick.reloadEngine =>
                /\ QuickFixesFilterId \in quick.read
                /\ quick.atReturn \notin {"idle", "done"}
\* The call with reloadEngine has returned, having enabled the filter that
\* was not enabled before, and the update it started is still awaiting
\* api.configure.
C30_Witness ==
    /\ quick.pc = "returned"
    /\ quick.reloadEngine
    /\ QuickFixesFilterId \notin quick.before
    /\ \E p \in Procs : /\ procs[p].pc = "configure"
                        /\ QuickFixesFilterId \in procs[p].cfg.staticFiltersIds

====
